---- MODULE Spec2Model ----
(***************************************************************************)
(* Verification model of dynamic_uav_design_system.                        *)
(*                                                                         *)
(*   SpecSaga  : AgentLifecycleManager._execute_atomic_operation and       *)
(*               _rollback_operation over the step lists built by          *)
(*               create/update/delete_agent_atomically.                    *)
(*                                                                         *)
(*   SpecDetect, SpecDeletion, SpecUpdateDeps : DependencyManager over an  *)
(*               agents table drawn from the bounded tables.               *)
(*                                                                         *)
(*   SpecStability : DynamicGlobalState.check_stability over the bounded   *)
(*               run states.                                               *)
(*                                                                         *)
(*   SpecSched : the workflow graph of DynamicWorkflowBuilder: the         *)
(*               coordinator node, the aggregator with BaseAgent.process   *)
(*               tasks in flight, and _should_continue.                    *)
(*                                                                         *)
(*   SpecApi   : the agent endpoints (the running check, then the saga)    *)
(*               interleaved with LangGraphService.start_workflow and its  *)
(*               background task.                                          *)
(*                                                                         *)
(*   SpecCompletion : _check_completion_conditions applied by the          *)
(*               coordinator node to the bounded run states.               *)
(*                                                                         *)
(*   SpecProcess : BaseAgent.process applied to the bounded run states in  *)
(*               which an agent with earlier outputs is dispatched.        *)
(*                                                                         *)
(*   SpecService : start_workflow, the background task running the         *)
(*               workflow graph, and stop_workflow.                        *)
(*                                                                         *)
(*   SpecServiceFair : SpecService with the event loop running every task  *)
(*               that can take a step.                                     *)
(*                                                                         *)
(*   SpecState, SpecMessages : DynamicGlobalState.send_message with        *)
(*               remove_agent, and send_message alone.                     *)
(*                                                                         *)
(*   SpecLifecycle : _execute_atomic_operation and _rollback_operation     *)
(*               over the operation built for a create, update or delete   *)
(*               request, each step acting on the agents table, the        *)
(*               columns of the rows and the files.                        *)
(*                                                                         *)
(*   SpecStart : start_workflow arriving while no workflow runs or while   *)
(*               an earlier one is executing.                              *)
(*                                                                         *)
(* Python list indices are 0-based; the model numbers steps from 1 and     *)
(* writes 0 for a failed_step of None.                                     *)
(***************************************************************************)
EXTENDS Integers, Sequences, FiniteSets, TLC

VARIABLES
    \* ---- AtomicOperation / AgentLifecycleManager (agent_lifecycle_manager.py)
    operation,            \* the AtomicOperation being executed: operation_type, steps
    saga_pc,              \* position inside _execute_atomic_operation
    step_index,           \* loop variable i of the forward loop (1-based)
    completed_steps,      \* operation.completed_steps
    failed_step,          \* operation.failed_step (0 = None)
    success,              \* operation.success
    rollback_completed,   \* operation.rollback_completed
    rollback_index,       \* position of the reversed(completed_steps) loop
    active_operations,    \* keys of self.active_operations
    saga_result,          \* the dict returned by _execute_atomic_operation
    executed_log,         \* steps handed to _execute_step by the forward loop
    rollback_log,         \* steps whose rollback step was handed to _execute_step
    rollback_errors,      \* steps whose rollback attempt raised
    db_rollbacks,         \* number of self.db.rollback() calls of _rollback_operation
    \* ---- the agents table and DependencyManager (dependency_manager.py)
    agents,               \* Agent rows by name: status and dependencies
    agent_rows,           \* the names of the stored rows, in the order a select returns them
    dm_call,              \* the DependencyManager call made and what it returned
    \* ---- DynamicGlobalState and the workflow graph (state.py, workflows/langgraph.py)
    wf_pc,                \* the node of the compiled graph the run is at
    agent_configs,        \* agent_configs / state.active_agents: name -> dependencies
    coordinator_agent,    \* DynamicWorkflowBuilder._coordinator_agent
    current_iteration,    \* state.current_iteration
    max_iterations,       \* state.max_iterations
    stability_threshold,  \* state.stability_threshold
    project_complete,     \* state.project_complete
    agent_outputs,        \* state.agent_outputs: name -> iteration -> output
    last_update_iteration,   \* state.last_update_iteration
    agent_execution_status,  \* state.agent_execution_status
    executed_agents,      \* executed_agents of dynamic_aggregator
    attempt,              \* the attempt loop variable of dynamic_aggregator
    tasks,                \* the asyncio tasks of the current attempt: name -> position
    dispatch_log,         \* every asyncio.create_task(agent.process(state)) made
    stability_call,       \* what a call of state.check_stability() returned
    \* ---- the API handlers (agents.py, langgraph_service.py)
    lifecycle_pc,         \* position of an agent endpoint handler
    start_pc,             \* position of LangGraphService.start_workflow
    workflow_status,      \* WorkflowExecution.status of the started workflow
    background_pc,        \* position of the _execute_workflow_async task
    \* ---- the conversations of DynamicGlobalState (state.py)
    conversations,        \* state.conversations: key -> participants, messages
    sent_log,             \* every message handed to send_message, in call order
    state_call,           \* the last DynamicGlobalState method called
    \* ---- what the steps of a lifecycle operation act on
    agent_data,           \* the arguments of the entry point that built the operation
    agent_fields,         \* Agent rows by name: the columns an update can set
    artifacts,            \* by name: the uploaded and the generated files on disk
    step_results,         \* step.result of the steps that returned, by step index
    original_data         \* the table, the columns and the files when the operation was built

sagaVars == <<operation, saga_pc, step_index, completed_steps, failed_step,
              success, rollback_completed, rollback_index, active_operations,
              saga_result, executed_log, rollback_log, rollback_errors,
              db_rollbacks>>

graphVars == <<agents, agent_rows, dm_call>>

schedVars == <<wf_pc, agent_configs, coordinator_agent, current_iteration,
               max_iterations, stability_threshold, project_complete,
               agent_outputs, last_update_iteration, agent_execution_status,
               executed_agents, attempt, tasks, dispatch_log, stability_call>>

apiVars == <<lifecycle_pc, start_pc, workflow_status, background_pc>>

messageVars == <<conversations, sent_log, state_call>>

storeVars == <<agent_data, agent_fields, artifacts, step_results, original_data>>

vars == <<sagaVars, graphVars, schedVars, apiVars, messageVars, storeVars>>

\* what an action of one component leaves alone
nonSagaVars == <<graphVars, schedVars, apiVars, messageVars, storeVars>>
nonGraphVars == <<sagaVars, schedVars, apiVars, messageVars, storeVars>>
nonSchedVars == <<sagaVars, graphVars, apiVars, messageVars, storeVars>>

None == "None"

(***************************************************************************)
(* Generic sequence helpers.                                               *)
(***************************************************************************)
Reverse(s) == [k \in 1..Len(s) |-> s[Len(s) + 1 - k]]

IsPrefix(s, t) == Len(s) <= Len(t) /\ \A k \in 1..Len(s) : s[k] = t[k]

(***************************************************************************)
(* OperationStep and the three step lists.                                 *)
(***************************************************************************)
OperationStep(n, s, o, r) ==
    [name |-> n, service |-> s, operation |-> o, rollback_operation |-> r]

\* create_agent_atomically; hasDeps is the truth of agent_data.dependencies
CreateAgentSteps(hasDeps) ==
    (IF hasDeps
     THEN <<OperationStep("validate_dependencies", "dependency_manager",
                          "validate_circular_dependencies", None)>>
     ELSE <<>>)
    \o
    << OperationStep("validate_files", "agent_factory",
                     "validate_agent_files", "cleanup_validation_artifacts"),
       OperationStep("create_agent_files", "agent_factory",
                     "create_agent", "delete_agent"),
       OperationStep("create_database_record", "database",
                     "create_agent_record", "delete_agent_record"),
       OperationStep("update_prompts", "prompt_manager",
                     "cascade_update_on_agent_addition",
                     "cascade_update_on_agent_removal"),
       OperationStep("rebuild_workflow", "workflow_builder",
                     "rebuild_workflow_on_agent_change",
                     "rebuild_workflow_on_agent_change") >>

\* update_agent_atomically; depsGiven: agent_data.dependencies is not None,
\* hasFiles: agent_data.files, hasMetadata: metadata_updates is non-empty
UpdateAgentSteps(depsGiven, hasFiles, hasMetadata) ==
    (IF depsGiven
     THEN <<OperationStep("validate_dependencies", "dependency_manager",
                          "update_agent_dependencies", "update_agent_dependencies")>>
     ELSE <<>>)
    \o
    (IF hasFiles
     THEN <<OperationStep("update_agent_files", "agent_factory",
                          "update_agent_files", "restore_agent_files")>>
     ELSE <<>>)
    \o
    (IF hasMetadata
     THEN <<OperationStep("update_config_metadata", "agent_factory",
                          "update_agent_metadata", "restore_agent_metadata")>>
     ELSE <<>>)
    \o
    << OperationStep("update_database_record", "database",
                     "update_agent_record", "restore_agent_record"),
       OperationStep("update_prompts", "prompt_manager",
                     "cascade_update_on_agent_modification",
                     "cascade_update_on_agent_modification"),
       OperationStep("rebuild_workflow", "workflow_builder",
                     "rebuild_workflow_on_agent_change",
                     "rebuild_workflow_on_agent_change") >>

\* delete_agent_atomically
DeleteAgentSteps ==
    << OperationStep("analyze_deletion_impact", "dependency_manager",
                     "analyze_deletion_impact", None),
       OperationStep("execute_dependency_deletion", "dependency_manager",
                     "execute_safe_deletion", "restore_deleted_agents"),
       OperationStep("delete_agent_files", "agent_factory",
                     "delete_agent", "restore_agent"),
       OperationStep("update_prompts", "prompt_manager",
                     "cascade_update_on_agent_removal",
                     "cascade_update_on_agent_addition"),
       OperationStep("rebuild_workflow", "workflow_builder",
                     "rebuild_workflow_on_agent_change",
                     "rebuild_workflow_on_agent_change") >>

AtomicOperation(type, steps) == [operation_type |-> type, steps |-> steps]

\* the operations the three public entry points can build
Operations ==
    {AtomicOperation("create_agent", CreateAgentSteps(d)) : d \in BOOLEAN}
    \cup
    \* depsGiven implies a non-empty metadata_updates (line 209)
    {AtomicOperation("update_agent", UpdateAgentSteps(t[1], t[2], t[3])) :
        t \in {u \in BOOLEAN \X BOOLEAN \X BOOLEAN : u[1] => u[3]}}
    \cup
    {AtomicOperation("delete_agent", DeleteAgentSteps)}

(***************************************************************************)
(* _execute_step: the operations each service dispatcher knows.  Any other *)
(* operation name raises ValueError("Unknown ... operation").              *)
(***************************************************************************)
KnownOperations(service) ==
    CASE service = "dependency_manager" ->
            {"validate_circular_dependencies", "analyze_deletion_impact",
             "execute_safe_deletion", "update_agent_dependencies"}
      [] service = "agent_factory" ->
            {"validate_agent_files", "create_agent", "update_agent_files",
             "delete_agent", "update_agent_metadata"}
      [] service = "prompt_manager" ->
            {"cascade_update_on_agent_addition", "cascade_update_on_agent_removal",
             "cascade_update_on_agent_modification"}
      [] service = "workflow_builder" ->
            {"rebuild_workflow_on_agent_change"}
      [] service = "database" ->
            {"create_agent_record", "update_agent_record", "delete_agent_record"}
      [] OTHER -> {}

\* the outcomes _execute_step can have for (service, operation): the
\* collaborator may succeed or raise; an unknown operation always raises
StepOutcomes(service, op) ==
    IF op \in KnownOperations(service) THEN {"ok", "raise"} ELSE {"raise"}

HasRollback(i) == operation.steps[i].rollback_operation # None

\* _rollback_operation line 625: for i in reversed(operation.completed_steps)
RollbackOrderForward(completed) == completed
RollbackOrder(completed) == Reverse(completed)

\* line 415: "steps_completed": len(operation.completed_steps)
StepsCompletedOffByOne(completed) == Len(completed) + 1
StepsCompleted(completed) == Len(completed)

(***************************************************************************)
(* SpecSaga                                                                *)
(***************************************************************************)
\* an operation has been built by one of the entry points
SagaCreated ==
    /\ operation \in Operations
    /\ saga_pc = "created"
    /\ step_index = 1
    /\ completed_steps = <<>>
    /\ failed_step = 0
    /\ success = FALSE
    /\ rollback_completed = FALSE
    /\ rollback_index = 0
    /\ active_operations = {}
    /\ saga_result = None
    /\ executed_log = <<>>
    /\ rollback_log = <<>>
    /\ rollback_errors = {}
    /\ db_rollbacks = 0

\* no lifecycle operation has been built
SagaIdle ==
    /\ operation = AtomicOperation(None, <<>>)
    /\ saga_pc = "idle"
    /\ step_index = 1
    /\ completed_steps = <<>>
    /\ failed_step = 0
    /\ success = FALSE
    /\ rollback_completed = FALSE
    /\ rollback_index = 0
    /\ active_operations = {}
    /\ saga_result = None
    /\ executed_log = <<>>
    /\ rollback_log = <<>>
    /\ rollback_errors = {}
    /\ db_rollbacks = 0

\* the clean-up done on the success path only
PopOnSuccessOnly(registry, operation_id, succeeded) ==
    IF succeeded THEN registry \ {operation_id} ELSE registry
\* line 421, in the finally of _execute_atomic_operation:
\* self.active_operations.pop(operation.operation_id, None)
PopOperation(registry, operation_id, succeeded) == registry \ {operation_id}

\* what get_operation_status returns for an id that is not in the registry
NoOperationStatus == [operation_id |-> None]

\* get_operation_status, lines 656-683
get_operation_status(operation_id) ==
    IF operation_id \notin active_operations THEN NoOperationStatus
    ELSE [operation_id |-> operation_id,
          operation_type |-> operation.operation_type,
          total_steps |-> Len(operation.steps),
          completed_steps |-> Len(completed_steps),
          failed_step |-> failed_step,
          success |-> success,
          rollback_completed |-> rollback_completed]

\* line 373: self.active_operations[operation.operation_id] = operation
RegisterOperation ==
    /\ saga_pc = "created"
    /\ active_operations' = active_operations \cup {operation.operation_type}
    /\ saga_pc' = "executing"
    /\ UNCHANGED <<operation, step_index, completed_steps, failed_step, success,
                   rollback_completed, rollback_index, saga_result, executed_log,
                   rollback_log, rollback_errors, db_rollbacks>>
    /\ UNCHANGED nonSagaVars

\* lines 377-387: one iteration of the forward loop whose step returns
StepSucceeds ==
    /\ saga_pc = "executing"
    /\ step_index <= Len(operation.steps)
    /\ "ok" \in StepOutcomes(operation.steps[step_index].service,
                             operation.steps[step_index].operation)
    /\ executed_log' = Append(executed_log, step_index)
    /\ completed_steps' = Append(completed_steps, step_index)
    /\ step_index' = step_index + 1
    /\ UNCHANGED <<operation, saga_pc, failed_step, success, rollback_completed,
                   rollback_index, active_operations, saga_result, rollback_log,
                   rollback_errors, db_rollbacks>>
    /\ UNCHANGED nonSagaVars

\* lines 389-397: the step raises; the rollback sweep starts
StepFails ==
    /\ saga_pc = "executing"
    /\ step_index <= Len(operation.steps)
    /\ "raise" \in StepOutcomes(operation.steps[step_index].service,
                                operation.steps[step_index].operation)
    /\ executed_log' = Append(executed_log, step_index)
    /\ failed_step' = step_index
    /\ saga_pc' = "rolling_back"
    /\ rollback_index' = 1
    /\ UNCHANGED <<operation, step_index, completed_steps, success,
                   rollback_completed, active_operations, saga_result,
                   rollback_log, rollback_errors, db_rollbacks>>
    /\ UNCHANGED nonSagaVars

\* the sweep with the except clause around the loop instead of inside it
SweepAbortsOnError(index, raised, n) == IF raised THEN n + 1 ELSE index + 1
\* lines 642-644: the except clause is inside the loop body, so the loop goes
\* on to the next completed step whether or not the rollback step raised
ContinueSweep(index, raised, n) == index + 1

\* lines 625-644: one iteration of the rollback loop.  A step without a
\* rollback_operation is passed over; otherwise the rollback step goes to
\* _execute_step and an exception is logged and swallowed.
RollbackStep ==
    /\ saga_pc = "rolling_back"
    /\ rollback_index <= Len(completed_steps)
    /\ LET i == RollbackOrder(completed_steps)[rollback_index]
           step == operation.steps[i]
       IN  IF step.rollback_operation # None
           THEN /\ rollback_log' = Append(rollback_log, i)
                /\ \E outcome \in StepOutcomes(step.service, step.rollback_operation) :
                      /\ rollback_errors' = IF outcome = "raise"
                                            THEN rollback_errors \cup {i}
                                            ELSE rollback_errors
                      /\ rollback_index' = ContinueSweep(rollback_index, outcome = "raise",
                                                         Len(completed_steps))
           ELSE /\ rollback_index' = rollback_index + 1
                /\ UNCHANGED <<rollback_log, rollback_errors>>
    /\ UNCHANGED <<operation, saga_pc, step_index, completed_steps, failed_step,
                   success, rollback_completed, active_operations, saga_result,
                   executed_log, db_rollbacks>>
    /\ UNCHANGED nonSagaVars

\* the transaction rolled back from inside the loop, after the first step
SweepLeftEarly(index, n) == index > n \/ index > 1
\* line 625: the for loop over reversed(completed_steps) is exhausted
SweepFinished(index, n) == index > n

\* lines 646-654, 399-405 and the finally of line 421: db.rollback(), the
\* rollback_completed flag, the failure result, the registry clean-up
FinishRollback ==
    /\ saga_pc = "rolling_back"
    /\ SweepFinished(rollback_index, Len(completed_steps))
    /\ db_rollbacks' = db_rollbacks + 1
    /\ rollback_completed' = TRUE
    /\ saga_result' = [success |-> FALSE,
                       failed_step |-> operation.steps[failed_step].name,
                       rollback_completed |-> TRUE]
    /\ active_operations' = PopOperation(active_operations, operation.operation_type, FALSE)
    /\ saga_pc' = "done"
    /\ UNCHANGED <<operation, step_index, completed_steps, failed_step, success,
                   rollback_index, executed_log, rollback_log, rollback_errors>>
    /\ UNCHANGED nonSagaVars

\* lines 407-421: the loop ran off the end of the list
CompleteOperation ==
    /\ saga_pc = "executing"
    /\ step_index > Len(operation.steps)
    /\ success' = TRUE
    /\ saga_result' = [success |-> TRUE,
                       steps_completed |-> StepsCompleted(completed_steps)]
    /\ active_operations' = PopOperation(active_operations, operation.operation_type, TRUE)
    /\ saga_pc' = "done"
    /\ UNCHANGED <<operation, step_index, completed_steps, failed_step,
                   rollback_completed, rollback_index, executed_log, rollback_log,
                   rollback_errors, db_rollbacks>>
    /\ UNCHANGED nonSagaVars

SagaNext ==
    \/ RegisterOperation
    \/ StepSucceeds
    \/ StepFails
    \/ RollbackStep
    \/ FinishRollback
    \/ CompleteOperation

(***************************************************************************)
(* The agents table.                                                       *)
(***************************************************************************)
AgentNames == {"coordinator", "M", "A", "S"}

WorkerNames == AgentNames \ {"coordinator"}

\* the most dependency entries the stored table holds, over all agents
MaxEdges == 3

Range(s) == {s[k] : k \in 1..Len(s)}

\* the sequences that list every member of S exactly once
Orderings(S) ==
    {s \in [1..Cardinality(S) -> S] : \A j, k \in 1..Cardinality(S) : s[j] = s[k] => j = k}

\* dependency lists: names, none repeated
DependencyLists ==
    UNION {Orderings(T) : T \in SUBSET AgentNames}

\* AgentStatus (models/agent.py); "absent" marks a name without a row
EligibleStatuses == {"inactive", "running"}

\* the rows a worker can have with at most budget dependency entries
WorkerRows(budget) ==
    {[status |-> "absent", dependencies |-> <<>>]}
    \cup
    {[status |-> st, dependencies |-> d] :
        st \in {"inactive", "error"},
        d \in {l \in DependencyLists : Len(l) <= budget}}

RECURSIVE WorkerTables(_, _)
\* the assignments of rows to the workers S with at most budget entries in all
WorkerTables(S, budget) ==
    IF S = {} THEN {<<>>}
    ELSE LET a == CHOOSE x \in S : TRUE IN
         UNION {{(a :> row) @@ t :
                    t \in WorkerTables(S \ {a}, budget - Len(row.dependencies))} :
                row \in WorkerRows(budget)}

\* the tables the model starts from.  The coordinator row is created at
\* start-up with no dependencies and is the first row; every worker is absent,
\* inactive or in error, and the workers' rows come in any order.
Tables ==
    {("coordinator" :> [status |-> "inactive", dependencies |-> <<>>]) @@ t :
        t \in WorkerTables(WorkerNames, MaxEdges)}

RECURSIVE TotalEdges(_, _)
\* the number of dependency entries the rows of S hold in table t
TotalEdges(t, S) ==
    IF S = {} THEN 0
    ELSE LET a == CHOOSE x \in S : TRUE IN Len(t[a].dependencies) + TotalEdges(t, S \ {a})

\* rows in the order coordinator, M, A, S
CreationOrder(t) ==
    SelectSeq(<<"coordinator", "M", "A", "S">>, LAMBDA a : t[a].status # "absent")

RowOrders(t) ==
    {<<"coordinator">> \o o : o \in Orderings({a \in WorkerNames : t[a].status # "absent"})}

(***************************************************************************)
(* DependencyManager.get_dependency_graph                                  *)
(***************************************************************************)
SelectIn(s, S) == SelectSeq(s, LAMBDA x : x \in S)

\* lines 47-75 over table t with rows in order rows.  nodes: the keys in dict
\* order and, per key, the DependencyNode fields
DependencyGraph(t, rows) ==
    LET keys == SelectSeq(rows, LAMBDA a : t[a].status \in EligibleStatuses)
        agent_names == Range(keys)
        deps == [a \in agent_names |-> SelectIn(t[a].dependencies, agent_names)]
    IN  [keys |-> keys,
         dependencies |-> deps,
         dependents |-> [d \in agent_names |->
                            SelectSeq(keys, LAMBDA a : d \in Range(deps[a]))]]

get_dependency_graph == DependencyGraph(agents, agent_rows)

\* lines 362-368 of update_agent_dependencies: the dependents recomputed
RecalculateDependents(nodes) ==
    [nodes EXCEPT !.dependents =
        [d \in Range(nodes.keys) |->
            SelectSeq(nodes.keys, LAMBDA a : d \in Range(nodes.dependencies[a]))]]

(***************************************************************************)
(* DependencyManager.detect_circular_dependencies                          *)
(***************************************************************************)
IndexOf(s, x) == CHOOSE k \in 1..Len(s) : s[k] = x /\ \A j \in 1..(k - 1) : s[j] # x

\* what dfs does on entering node_name (lines 84-92), with the visited test
\* made first
DfsEntryVisitedFirst(node_name, st) ==
    IF node_name \in st.visited THEN "return"
    ELSE IF node_name \in Range(st.path) THEN "cycle"
    ELSE "descend"

\* what dfs does on entering node_name (lines 84-92)
DfsEntry(node_name, st) ==
    IF node_name \in Range(st.path) THEN "cycle"
    ELSE IF node_name \in st.visited THEN "return"
    ELSE "descend"

\* the reported cycle taken from the root of the walk
CycleStartAtRoot(path, node_name) == 1
\* line 86: cycle_start = path.index(node_name)
CycleStart(path, node_name) == IndexOf(path, node_name)

RECURSIVE dfs(_, _, _)
RECURSIVE dfs_dependencies(_, _, _, _)
\* lines 83-102
dfs(nodes, node_name, st) ==
    LET entry == DfsEntry(node_name, st) IN
    IF entry = "cycle"
    THEN LET cycle_start == CycleStart(st.path, node_name)
             cycle == SubSeq(st.path, cycle_start, Len(st.path)) \o <<node_name>>
         IN  [st EXCEPT !.circular_deps = Append(@, cycle)]
    ELSE IF entry = "return"
    THEN st
    ELSE LET st1 == [st EXCEPT !.visited = @ \cup {node_name},
                               !.path = Append(@, node_name)]
             st2 == IF node_name \in Range(nodes.keys)
                    THEN dfs_dependencies(nodes, nodes.dependencies[node_name], 1, st1)
                    ELSE st1
         IN  [st2 EXCEPT !.path = SubSeq(@, 1, Len(@) - 1)]

\* lines 99-100: for dependency in node.dependencies: dfs(dependency)
dfs_dependencies(nodes, deps, k, st) ==
    IF k > Len(deps) THEN st
    ELSE dfs_dependencies(nodes, deps, k + 1, dfs(nodes, deps[k], st))

RECURSIVE dfs_all(_, _, _)
\* lines 104-105: for node_name in nodes: dfs(node_name)
dfs_all(nodes, k, st) ==
    IF k > Len(nodes.keys) THEN st
    ELSE dfs_all(nodes, k + 1, dfs(nodes, nodes.keys[k], st))

detect_circular_dependencies(nodes) ==
    dfs_all(nodes, 1, [circular_deps |-> <<>>, visited |-> {}, path |-> <<>>]).circular_deps

(***************************************************************************)
(* DependencyManager._calculate_cascade_deletion_order and                 *)
(* analyze_deletion_impact                                                 *)
(***************************************************************************)
\* add_to_order nests one call per agent of a dependency chain; a deeper
\* nesting only arises from a dependency cycle, never ends, and is cut by the
\* interpreter with RecursionError
RecursionLimit == Cardinality(AgentNames) + 1

RECURSIVE AffectedAgents(_, _, _)
\* lines 224-236 without the loop: the target and its direct dependents only
AffectedAgentsDirectOnly(nodes, to_process, affected_agents) ==
    Range(to_process) \cup
        UNION {Range(nodes.dependents[a]) : a \in Range(to_process) \cap Range(nodes.keys)}
\* lines 224-236: the target and everything that transitively depends on it
AffectedAgents(nodes, to_process, affected_agents) ==
    IF to_process = <<>> THEN affected_agents
    ELSE LET current == to_process[Len(to_process)]
             rest == SubSeq(to_process, 1, Len(to_process) - 1)
         IN  IF current \in affected_agents
             THEN AffectedAgents(nodes, rest, affected_agents)
             ELSE AffectedAgents(nodes,
                                 IF current \in Range(nodes.keys)
                                 THEN rest \o nodes.dependents[current]
                                 ELSE rest,
                                 affected_agents \cup {current})

\* line 254, with the agent put in front of the agents already ordered
PlaceInOrderFirst(deletion_order, agent) == <<agent>> \o deletion_order

\* line 254: deletion_order.append(agent)
PlaceInOrder(deletion_order, agent) == Append(deletion_order, agent)

RECURSIVE add_to_order(_, _, _, _, _)
RECURSIVE add_dependents(_, _, _, _, _, _)
\* lines 242-255; st.overflow records that the nesting passed RecursionLimit
add_to_order(nodes, affected_agents, agent, st, depth) ==
    IF st.overflow THEN st
    ELSE IF depth > RecursionLimit THEN [st EXCEPT !.overflow = TRUE]
    ELSE IF agent \in st.processed \/ agent \notin affected_agents THEN st
    ELSE LET st1 == IF agent \in Range(nodes.keys)
                    THEN add_dependents(nodes, affected_agents,
                                        nodes.dependents[agent], 1, st, depth + 1)
                    ELSE st
         IN  IF st1.overflow \/ agent \in st1.processed THEN st1
             ELSE [st1 EXCEPT !.deletion_order = PlaceInOrder(@, agent),
                              !.processed = @ \cup {agent}]

\* lines 248-250
add_dependents(nodes, affected_agents, dependents, k, st, depth) ==
    IF k > Len(dependents) \/ st.overflow THEN st
    ELSE add_dependents(nodes, affected_agents, dependents, k + 1,
                        IF dependents[k] \in affected_agents
                        THEN add_to_order(nodes, affected_agents, dependents[k], st, depth)
                        ELSE st,
                        depth)

RECURSIVE add_all_to_order(_, _, _, _, _)
\* lines 257-258: for agent in affected_agents, in the set's iteration order
add_all_to_order(nodes, affected_agents, set_order, k, st) ==
    IF k > Len(set_order) \/ st.overflow THEN st
    ELSE add_all_to_order(nodes, affected_agents, set_order, k + 1,
                          add_to_order(nodes, affected_agents, set_order[k], st, 1))

\* lines 220-260; set_order is the order in which the set affected_agents is
\* iterated.  The deletion order is in .deletion_order unless .overflow tells
\* that the call ended in RecursionError
calculate_cascade_deletion_order(agent_name, nodes, set_order) ==
    LET affected_agents == AffectedAgents(nodes, <<agent_name>>, {})
    IN  add_all_to_order(nodes, affected_agents, set_order, 1,
                         [deletion_order |-> <<>>, processed |-> {},
                          overflow |-> FALSE])

\* what a call that ended in RecursionError hands to its caller
RecursionError == [raised |-> "RecursionError"]

DeletionPlan(t, safe, dependent, cascade, order) ==
    [target_agent |-> t, can_delete_safely |-> safe, dependent_agents |-> dependent,
     cascade_deletion_required |-> cascade, deletion_order |-> order]

\* line 192, with the test made on the target's own dependencies
CanDeleteSafelyNoDependencies(nodes, agent_name) ==
    Len(nodes.dependencies[agent_name]) = 0

\* line 192: can_delete_safely = len(dependent_agents) == 0
CanDeleteSafely(nodes, agent_name) ==
    Len(nodes.dependents[agent_name]) = 0

\* lines 173-218; the DeletionPlan, or RecursionError when
\* _calculate_cascade_deletion_order does not return
analyze_deletion_impact(agent_name, set_order) ==
    LET nodes == get_dependency_graph IN
    IF agent_name \notin Range(nodes.keys)
    THEN DeletionPlan(agent_name, FALSE, <<>>, FALSE, <<>>)
    ELSE IF CanDeleteSafely(nodes, agent_name)
    THEN DeletionPlan(agent_name, TRUE, <<>>, FALSE, <<agent_name>>)
    ELSE LET st == calculate_cascade_deletion_order(agent_name, nodes, set_order)
         IN  IF st.overflow THEN RecursionError
             ELSE DeletionPlan(agent_name, FALSE, nodes.dependents[agent_name],
                               TRUE, st.deletion_order)

(***************************************************************************)
(* DependencyManager.update_agent_dependencies                             *)
(***************************************************************************)
\* lines 358-359.  nodes.copy() is a shallow copy, so the assignment to
\* test_nodes[agent_name].dependencies is made on the node object that nodes
\* holds as well; the agents table is not touched.
TestNodes(nodes, agent_name, new_dependencies) ==
    RecalculateDependents([nodes EXCEPT !.dependencies[agent_name] = new_dependencies])

\* line 372, with the failure returned only when the first reported cycle
\* passes through the updated agent
RejectsUpdateOwnCycleOnly(circular_deps, agent_name) ==
    circular_deps # <<>> /\ agent_name \in Range(circular_deps[1])

\* line 372: if circular_deps
RejectsUpdate(circular_deps, agent_name) == circular_deps # <<>>

\* lower() of the names of the model
IsCoordinator(agent_name) == agent_name = "coordinator"

\* lines 338-406: the returned dict and the table after the call; commit_ok
\* is whether the select and the commit of lines 381-393 went through
update_agent_dependencies(agent_name, new_dependencies, commit_ok) ==
    LET nodes == get_dependency_graph IN
    IF IsCoordinator(agent_name) /\ new_dependencies # <<>>
    THEN [result |-> [success |-> FALSE, error |-> "coordinator cannot have dependencies"],
          agents |-> agents]
    ELSE IF agent_name \notin Range(nodes.keys)
    THEN [result |-> [success |-> FALSE, error |-> "not found"], agents |-> agents]
    ELSE LET test_nodes == TestNodes(nodes, agent_name, new_dependencies)
             circular_deps == detect_circular_dependencies(test_nodes)
         IN  IF RejectsUpdate(circular_deps, agent_name)
             THEN [result |-> [success |-> FALSE,
                               error |-> "Update would create circular dependencies",
                               circular_dependencies |-> circular_deps],
                   agents |-> agents]
             ELSE IF ~commit_ok
             THEN [result |-> [success |-> FALSE, error |-> "Failed to update dependencies"],
                   agents |-> agents]
             ELSE [result |-> [success |-> TRUE,
                               updated_dependencies |-> new_dependencies,
                               previous_dependencies |-> test_nodes.dependencies[agent_name]],
                   agents |-> [agents EXCEPT ![agent_name].dependencies = new_dependencies]]

\* lines 446-454 of _execute_dependency_manager_step: the graph with the
\* temporary node of the agent to create
TemporaryNodeGraph(current_nodes, agent_name, dependencies) ==
    LET names == Range(current_nodes.keys) \cup {agent_name} IN
    [keys |-> IF agent_name \in Range(current_nodes.keys) THEN current_nodes.keys
              ELSE Append(current_nodes.keys, agent_name),
     dependencies |-> [a \in names |-> IF a = agent_name THEN dependencies
                                       ELSE current_nodes.dependencies[a]],
     dependents |-> [a \in names |-> IF a = agent_name THEN <<>>
                                     ELSE current_nodes.dependents[a]]]

\* lines 442-461: the cycles found for the agent to create
validate_circular_dependencies(agent_name, dependencies) ==
    detect_circular_dependencies(
        TemporaryNodeGraph(get_dependency_graph, agent_name, dependencies))

(***************************************************************************)
(* DependencyManager._calculate_dependency_chain_length                    *)
(***************************************************************************)
\* line 158 with the visited set never consulted
MetOnPathNever(agent_name, visited) == FALSE
\* line 158: if agent_name in visited
MetOnPath(agent_name, visited) == agent_name \in visited

RECURSIVE calculate_dependency_chain_length(_, _, _, _)
RECURSIVE max_dependency_depth(_, _, _, _, _, _)
\* lines 152-171; the result is [overflow, length], overflow recording that
\* the nesting passed RecursionLimit (the interpreter's RecursionError)
calculate_dependency_chain_length(agent_name, nodes, visited, nesting) ==
    IF nesting > RecursionLimit THEN [overflow |-> TRUE, length |-> 0]
    ELSE IF MetOnPath(agent_name, visited) THEN [overflow |-> FALSE, length |-> 0]
    ELSE IF agent_name \notin Range(nodes.keys) \/ nodes.dependencies[agent_name] = <<>>
    THEN [overflow |-> FALSE, length |-> 1]
    ELSE LET r == max_dependency_depth(nodes.dependencies[agent_name], 1, nodes,
                                       visited \cup {agent_name}, nesting + 1, 0)
         IN  IF r.overflow THEN r ELSE [r EXCEPT !.length = @ + 1]

\* lines 166-169: the loop over node.dependencies, each call on its own copy
\* of visited
max_dependency_depth(dependencies, k, nodes, visited, nesting, max_depth) ==
    IF k > Len(dependencies) THEN [overflow |-> FALSE, length |-> max_depth]
    ELSE LET depth == calculate_dependency_chain_length(dependencies[k], nodes,
                                                        visited, nesting)
         IN  IF depth.overflow THEN depth
             ELSE max_dependency_depth(dependencies, k + 1, nodes, visited, nesting,
                                       IF depth.length > max_depth THEN depth.length
                                       ELSE max_depth)

\* lines 139-142 of validate_dependencies: the chain length of every node
chain_lengths(nodes) ==
    [a \in Range(nodes.keys) |-> calculate_dependency_chain_length(a, nodes, {}, 1)]

(***************************************************************************)
(* SpecDetect, SpecDeletion, SpecUpdateDeps                                *)
(***************************************************************************)
NoCall == [op |-> "none"]

GraphTables ==
    /\ agents \in Tables
    /\ agent_rows \in RowOrders(agents)
    /\ dm_call = NoCall

\* the tables whose rows were created in the order coordinator, M, A, S
GraphTablesInCreationOrder ==
    /\ agents \in Tables
    /\ agent_rows = CreationOrder(agents)
    /\ dm_call = NoCall

\* an empty table, no call made
GraphIdle ==
    /\ agents = [a \in AgentNames |-> [status |-> "absent", dependencies |-> <<>>]]
    /\ agent_rows = <<>>
    /\ dm_call = NoCall

\* validate_dependencies, lines 124-129: the graph of the table and its cycles
ValidateDependencies ==
    /\ dm_call = NoCall
    /\ LET nodes == get_dependency_graph IN
       dm_call' = [op |-> "validate_dependencies",
                   nodes |-> nodes,
                   circular_dependencies |-> detect_circular_dependencies(nodes),
                   chain_length |-> chain_lengths(nodes)]
    /\ UNCHANGED <<agents, agent_rows>>
    /\ UNCHANGED nonGraphVars

\* the validate_circular_dependencies step of agent_lifecycle_manager.py,
\* lines 442-461: the graph with a temporary node for the agent to create
ValidateCircularDependencies ==
    /\ dm_call = NoCall
    /\ \E agent_name \in WorkerNames, dependencies \in DependencyLists :
          /\ agents[agent_name].status = "absent"
          /\ dependencies # <<>>
          /\ Len(dependencies) <= MaxEdges
          /\ LET nodes == TemporaryNodeGraph(get_dependency_graph, agent_name,
                                              dependencies)
             IN  dm_call' = [op |-> "validate_circular_dependencies",
                             nodes |-> nodes,
                             circular_dependencies |-> detect_circular_dependencies(nodes)]
    /\ UNCHANGED <<agents, agent_rows>>
    /\ UNCHANGED nonGraphVars

AnalyzeDeletionImpact ==
    /\ dm_call = NoCall
    /\ \E agent_name \in AgentNames :
       \E set_order \in Orderings(AffectedAgents(get_dependency_graph, <<agent_name>>, {})) :
          dm_call' = [op |-> "analyze_deletion_impact",
                      agent_name |-> agent_name,
                      plan |-> analyze_deletion_impact(agent_name, set_order)]
    /\ UNCHANGED <<agents, agent_rows>>
    /\ UNCHANGED nonGraphVars

UpdateAgentDependencies ==
    /\ dm_call = NoCall
    /\ \E agent_name \in AgentNames, new_dependencies \in DependencyLists,
          commit_ok \in BOOLEAN :
          /\ Len(new_dependencies) + TotalEdges(agents, AgentNames \ {agent_name}) <= MaxEdges
          /\ LET r == update_agent_dependencies(agent_name, new_dependencies, commit_ok)
             IN  /\ dm_call' = [op |-> "update_agent_dependencies",
                                agent_name |-> agent_name,
                                new_dependencies |-> new_dependencies,
                                agents_before |-> agents,
                                result |-> r.result]
                 /\ agents' = r.agents
    /\ UNCHANGED agent_rows
    /\ UNCHANGED nonGraphVars

DetectNext ==
    \/ ValidateDependencies
    \/ ValidateCircularDependencies

DeletionNext == AnalyzeDeletionImpact

UpdateDepsNext == UpdateAgentDependencies

(***************************************************************************)
(* DynamicGlobalState (backend/langgraph/state.py).                        *)
(***************************************************************************)
\* the largest max_iterations a run is started with; a run whose coordinator
\* never looks at max_iterations is followed up to this iteration too
MaxIterations == 4

\* the largest stability_threshold a run is started with
MaxThreshold == 3

NoStabilityCall == [op |-> "none"]

\* an empty dict
EmptyDict == [k \in {} |-> 0]

\* d[k] = v
Put(d, k, v) == [x \in DOMAIN d \cup {k} |-> IF x = k THEN v ELSE d[x]]

Max(S) == CHOOSE x \in S : \A y \in S : y <= x

\* line 152 with the comparison it should not be: one iteration too lenient
UpdatedWithinThresholdOffByOne(current, last_update, threshold) ==
    current - last_update < threshold - 1
\* line 152: the agent has updated within the stability threshold
UpdatedWithinThreshold(current, last_update, threshold) ==
    current - last_update < threshold

\* check_stability without the early return of lines 147-148
CheckStabilityWithoutIterationGuard ==
    \A agent_name \in DOMAIN last_update_iteration :
        ~UpdatedWithinThreshold(current_iteration, last_update_iteration[agent_name],
                                stability_threshold)
\* lines 145-155
check_stability ==
    IF current_iteration < stability_threshold THEN FALSE
    ELSE \A agent_name \in DOMAIN last_update_iteration :
            ~UpdatedWithinThreshold(current_iteration,
                                    last_update_iteration[agent_name],
                                    stability_threshold)

(***************************************************************************)
(* Outputs.  hasattr(output, 'agent_tasks') holds of a CoordinatorOutput,  *)
(* hasattr(output, 'model_dump') of every pydantic output and not of the   *)
(* dict that _assign_initial_tasks stores.                                 *)
(***************************************************************************)
OutputValues == {"v1", "v2"}

AgentOutput(v) == [kind |-> "AgentOutput", agent_tasks |-> {}, value |-> v]

CoordinatorOutput(agent_tasks, complete) ==
    [kind |-> "CoordinatorOutput", agent_tasks |-> agent_tasks,
     value |-> IF complete THEN "complete" ELSE "continue"]

\* lines 351-356 of workflows/langgraph.py: a plain dict
FallbackCoordinatorOutput == [kind |-> "dict", agent_tasks |-> {}, value |-> "continue"]

(***************************************************************************)
(* BaseAgent (backend/agents/base_agent.py).                               *)
(***************************************************************************)
\* lines 120-134 with the two emptiness tests left out
DependencyReadyKeyOnly(outputs, dependency, current) ==
    dependency \in DOMAIN outputs
\* lines 120-134: the dependency has an output of the current or an earlier iteration
DependencyReady(outputs, dependency, current) ==
    /\ dependency \in DOMAIN outputs
    /\ DOMAIN outputs[dependency] # {}
    /\ \E iteration \in DOMAIN outputs[dependency] : iteration <= current

\* lines 112-136, and the identical overrides of the generated classes
check_dependencies_ready(agent_name) ==
    \A dependency \in agent_configs[agent_name] :
        DependencyReady(agent_outputs, dependency, current_iteration)

\* lines 51-73: TRUE when the coordinator output in force names a task for the agent
get_task_for_current_iteration(agent_name) ==
    IF "coordinator" \notin DOMAIN agent_outputs THEN FALSE
    ELSE LET coordinator_outputs == agent_outputs["coordinator"] IN
         IF current_iteration \notin DOMAIN coordinator_outputs
            /\ DOMAIN coordinator_outputs = {}
         THEN FALSE
         ELSE LET coord_output ==
                      IF current_iteration \notin DOMAIN coordinator_outputs
                      THEN coordinator_outputs[Max(DOMAIN coordinator_outputs)]
                      ELSE coordinator_outputs[current_iteration]
              IN  /\ coord_output.kind = "CoordinatorOutput"
                  /\ agent_name \in coord_output.agent_tasks

\* lines 339-340: structured_output.iteration = current_iter
StampIteration(output, n) ==
    [kind |-> output.kind, agent_tasks |-> output.agent_tasks, value |-> output.value,
     iteration |-> n]

\* the dumps compared with the iteration field left in
ComparedFieldsWithIteration(output) ==
    <<output.kind, output.agent_tasks, output.value, output.iteration>>
\* lines 287-294: model_dump() without 'iteration', 'timestamp', 'messages'
ComparedFields(output) == <<output.kind, output.agent_tasks, output.value>>

\* lines 266-300, evaluated after the new output is stored (line 345)
should_update_last_iteration(outputs, agent_name, new_output) ==
    IF agent_name \notin DOMAIN outputs THEN TRUE
    ELSE LET agent_outs == outputs[agent_name]
             previous == {k \in DOMAIN agent_outs : k < current_iteration}
         IN  IF DOMAIN agent_outs = {} \/ previous = {} THEN TRUE
             ELSE LET previous_output == agent_outs[Max(previous)] IN
                  IF new_output.kind # "dict" /\ previous_output.kind # "dict"
                  THEN ComparedFields(new_output) # ComparedFields(previous_output)
                  ELSE TRUE

(***************************************************************************)
(* DynamicCoordinator (workflows/coordinator.py).                          *)
(***************************************************************************)
\* line 31
CoordinatorStabilityThreshold == 3

\* lines 33-48
coordinator_check_stability ==
    IF current_iteration < CoordinatorStabilityThreshold THEN FALSE
    ELSE \A agent_name \in DOMAIN agent_configs :
            LET outs == IF agent_name \in DOMAIN agent_outputs
                        THEN agent_outputs[agent_name] ELSE EmptyDict
            IN  DOMAIN outs # {} =>
                   ~(current_iteration - Max(DOMAIN outs) < CoordinatorStabilityThreshold)

(***************************************************************************)
(* DynamicWorkflowBuilder (workflows/langgraph.py).                        *)
(***************************************************************************)
\* line 80
max_attempts == 3

\* lines 402-405
ErrorAgents ==
    {name \in DOMAIN agent_execution_status : agent_execution_status[name] = "error"}

\* line 407 with >= for >: half of the agents in error already ends the run
TooManyErrorsAtHalf(errors, tracked) == errors >= tracked \div 2
\* line 407: len(error_agents) > len(state.active_agents) // 2
TooManyErrors(errors, tracked) == errors > tracked \div 2

\* lines 389-411
check_completion_conditions ==
    \/ current_iteration >= max_iterations
    \/ check_stability
    \/ TooManyErrors(Cardinality(ErrorAgents), Cardinality(DOMAIN agent_configs))

\* the agent_configs a run is built with: the coordinator row, which has no
\* dependencies, and each worker missing or depending on any workers (itself
\* and missing ones included), with at most MaxEdges dependency entries in all
SchedulerConfigs ==
    {[a \in {"coordinator"} \cup present |-> IF a = "coordinator" THEN {} ELSE deps[a]] :
        present \in SUBSET WorkerNames,
        deps \in {d \in [WorkerNames -> SUBSET WorkerNames] :
                    Cardinality(d["M"]) + Cardinality(d["A"]) + Cardinality(d["S"])
                        <= MaxEdges}}

\* execute_workflow, lines 436-445: the initial state with every configured
\* agent added (state.py, lines 71-79).  _get_coordinator_agent (lines 291-323)
\* hands out self._coordinator_agent when it is set; its database lookup
\* filters on AgentStatus.ACTIVE, which models/agent.py does not define, so
\* the lookup raises and yields None.  A DynamicCoordinator never reads
\* max_iterations or state.stability_threshold.
SchedCreated ==
    /\ agent_configs \in SchedulerConfigs
    /\ coordinator_agent \in {None, "DynamicCoordinator"}
    /\ max_iterations \in 1..MaxIterations
    /\ stability_threshold \in IF coordinator_agent = None THEN 1..MaxThreshold
                               ELSE {MaxThreshold}
    /\ current_iteration = 0
    /\ project_complete = FALSE
    /\ agent_outputs = [a \in DOMAIN agent_configs |-> EmptyDict]
    /\ last_update_iteration = [a \in DOMAIN agent_configs |-> -1]
    /\ agent_execution_status = [a \in DOMAIN agent_configs |-> "ready"]
    /\ wf_pc = "coordinator"
    /\ executed_agents = {}
    /\ attempt = 0
    /\ tasks = EmptyDict
    /\ dispatch_log = {}
    /\ stability_call = NoStabilityCall

\* no workflow graph has been built
SchedIdle ==
    /\ agent_configs = EmptyDict
    /\ coordinator_agent = None
    /\ max_iterations = 1
    /\ stability_threshold = 1
    /\ current_iteration = 0
    /\ project_complete = FALSE
    /\ agent_outputs = EmptyDict
    /\ last_update_iteration = EmptyDict
    /\ agent_execution_status = EmptyDict
    /\ wf_pc = "idle"
    /\ executed_agents = {}
    /\ attempt = 0
    /\ tasks = EmptyDict
    /\ dispatch_log = {}
    /\ stability_call = NoStabilityCall

\* _coordinator_node, lines 267-270, with DynamicCoordinator.process
\* (workflows/coordinator.py, lines 50-103).  The structured output of the
\* LLM, or the fallback of lines 134-144, names tasks for any of the workers.
CoordinatorAgentProcess ==
    /\ wf_pc = "coordinator"
    /\ coordinator_agent # None
    /\ \E agent_tasks \in SUBSET (DOMAIN agent_configs \ {"coordinator"}),
          complete \in BOOLEAN :
          /\ current_iteration # 0 /\ ~coordinator_check_stability
                => agent_tasks = {} /\ complete = FALSE
          /\ ~complete => current_iteration < MaxIterations
          /\ agent_outputs' =
                Put(agent_outputs, "coordinator",
                    Put(agent_outputs["coordinator"], current_iteration,
                        CoordinatorOutput(agent_tasks, complete)))
          /\ project_complete' = complete
          /\ current_iteration' = IF complete THEN current_iteration
                                  ELSE current_iteration + 1
    /\ wf_pc' = "aggregator"
    /\ UNCHANGED <<agent_configs, coordinator_agent, max_iterations,
                   stability_threshold, last_update_iteration,
                   agent_execution_status, executed_agents, attempt, tasks,
                   dispatch_log, stability_call>>
    /\ UNCHANGED nonSchedVars

\* _coordinator_node, lines 271-279: no coordinator agent.  Iteration 0 stores
\* the dict of _assign_initial_tasks (lines 348-371); later iterations ask
\* _check_completion_conditions.
CoordinatorFallback ==
    /\ wf_pc = "coordinator"
    /\ coordinator_agent = None
    /\ IF current_iteration = 0
       THEN /\ agent_outputs' =
                  Put(agent_outputs, "coordinator",
                      Put(agent_outputs["coordinator"], current_iteration,
                          FallbackCoordinatorOutput))
            /\ UNCHANGED <<project_complete, stability_call>>
       ELSE /\ project_complete' = (project_complete \/ check_completion_conditions)
            /\ stability_call' =
                  IF current_iteration >= max_iterations THEN stability_call
                  ELSE [op |-> "check_stability",
                        current_iteration |-> current_iteration,
                        stability_threshold |-> stability_threshold,
                        last_update_iteration |-> last_update_iteration,
                        result |-> check_stability]
            /\ UNCHANGED agent_outputs
    /\ wf_pc' = "aggregator"
    /\ UNCHANGED <<agent_configs, coordinator_agent, current_iteration,
                   max_iterations, stability_threshold, last_update_iteration,
                   agent_execution_status, executed_agents, attempt, tasks,
                   dispatch_log>>
    /\ UNCHANGED nonSchedVars

\* dynamic_aggregator, lines 63-80: _create_agent_instance loads the generated
\* class of every configured agent, so the agents list is never empty
AggregatorEnter ==
    /\ wf_pc = "aggregator"
    /\ executed_agents' = {}
    /\ attempt' = 0
    /\ wf_pc' = "attempt"
    /\ UNCHANGED <<agent_configs, coordinator_agent, current_iteration,
                   max_iterations, stability_threshold, project_complete,
                   agent_outputs, last_update_iteration, agent_execution_status,
                   tasks, dispatch_log, stability_call>>
    /\ UNCHANGED nonSchedVars

\* the dependencies of the agent that have an output of an iteration <= n
DependenciesWithOutput(agent_name, n) ==
    {d \in agent_configs[agent_name] :
        /\ d \in DOMAIN agent_outputs
        /\ \E iteration \in DOMAIN agent_outputs[d] : iteration <= n}

\* lines 83-86 without the test on executed_agents
ReadyAgentsOfAnyRound(executed) ==
    {a \in DOMAIN agent_configs : check_dependencies_ready(a)}
\* lines 83-86: agent not in executed_agents and agent.check_dependencies_ready(state)
ReadyAgents(executed) ==
    {a \in DOMAIN agent_configs \ executed : check_dependencies_ready(a)}

\* lines 82-95: the ready agents of this attempt, a task for each
DispatchReady ==
    /\ wf_pc = "attempt"
    /\ attempt < max_attempts
    /\ LET ready_agents == ReadyAgents(executed_agents)
       IN  /\ ready_agents # {}
           /\ tasks' = [a \in ready_agents |-> "created"]
           /\ dispatch_log' = dispatch_log \cup
                 {[agent |-> a, iteration |-> current_iteration, attempt |-> attempt,
                   dependencies_with_output |->
                       DependenciesWithOutput(a, current_iteration)] :
                    a \in ready_agents}
    /\ wf_pc' = "awaiting"
    /\ UNCHANGED <<agent_configs, coordinator_agent, current_iteration,
                   max_iterations, stability_threshold, project_complete,
                   agent_outputs, last_update_iteration, agent_execution_status,
                   executed_agents, attempt, stability_call>>
    /\ UNCHANGED nonSchedVars

\* lines 82, 88-89, 107-111: no agent is ready, or the attempts are used up
AggregatorReturn ==
    /\ wf_pc = "attempt"
    /\ \/ attempt >= max_attempts
       \/ ReadyAgents(executed_agents) = {}
    /\ wf_pc' = "should_continue"
    /\ UNCHANGED <<agent_configs, coordinator_agent, current_iteration,
                   max_iterations, stability_threshold, project_complete,
                   agent_outputs, last_update_iteration, agent_execution_status,
                   executed_agents, attempt, tasks, dispatch_log, stability_call>>
    /\ UNCHANGED nonSchedVars

\* BaseAgent.process, lines 304-331: the task runs up to the await of
\* agent.ainvoke, or returns early
ProcessStart ==
    /\ wf_pc = "awaiting"
    /\ \E a \in DOMAIN tasks :
          /\ tasks[a] = "created"
          /\ IF \/ (a \in DOMAIN last_update_iteration
                      /\ last_update_iteration[a] = current_iteration)
                \/ ~check_dependencies_ready(a)
                \/ ~get_task_for_current_iteration(a)
             THEN /\ tasks' = [tasks EXCEPT ![a] = "returned"]
                  /\ UNCHANGED agent_execution_status
             ELSE /\ tasks' = [tasks EXCEPT ![a] = "invoking"]
                  /\ agent_execution_status' = Put(agent_execution_status, a, "running")
    /\ UNCHANGED <<wf_pc, agent_configs, coordinator_agent, current_iteration,
                   max_iterations, stability_threshold, project_complete,
                   agent_outputs, last_update_iteration, executed_agents, attempt,
                   dispatch_log, stability_call>>
    /\ UNCHANGED nonSchedVars

\* lines 334-362: ainvoke returned a structured response
ProcessStoresOutput ==
    /\ wf_pc = "awaiting"
    /\ \E a \in DOMAIN tasks, v \in OutputValues :
          /\ tasks[a] = "invoking"
          /\ LET structured_output == StampIteration(AgentOutput(v), current_iteration)
                 outs == IF a \in DOMAIN agent_outputs THEN agent_outputs[a]
                         ELSE EmptyDict
                 stored == Put(agent_outputs, a,
                               Put(outs, current_iteration, structured_output))
             IN  /\ agent_outputs' = stored
                 /\ last_update_iteration' =
                       IF should_update_last_iteration(stored, a, structured_output)
                       THEN Put(last_update_iteration, a, current_iteration)
                       ELSE last_update_iteration
          /\ agent_execution_status' = Put(agent_execution_status, a, "completed")
          /\ tasks' = [tasks EXCEPT ![a] = "returned"]
    /\ UNCHANGED <<wf_pc, agent_configs, coordinator_agent, current_iteration,
                   max_iterations, stability_threshold, project_complete,
                   executed_agents, attempt, dispatch_log, stability_call>>
    /\ UNCHANGED nonSchedVars

\* lines 335-336: the result has no structured_response; nothing is stored
\* and the status stays "running"
ProcessWithoutOutput ==
    /\ wf_pc = "awaiting"
    /\ \E a \in DOMAIN tasks :
          /\ tasks[a] = "invoking"
          /\ tasks' = [tasks EXCEPT ![a] = "returned"]
    /\ UNCHANGED <<wf_pc, agent_configs, coordinator_agent, current_iteration,
                   max_iterations, stability_threshold, project_complete,
                   agent_outputs, last_update_iteration, agent_execution_status,
                   executed_agents, attempt, dispatch_log, stability_call>>
    /\ UNCHANGED nonSchedVars

\* a failure that ends the round: the tasks still running are given up
RoundAbandonedOnError(round, agent_name) == [a \in DOMAIN round |-> "returned"]
\* process catches its own exception (lines 365-369) and the aggregator awaits
\* each task in a try of its own (langgraph.py lines 98-105): only the task
\* of the failing agent has returned
RoundAfterError(round, agent_name) == [round EXCEPT ![agent_name] = "returned"]

\* lines 365-369: create_react_agent_instance or ainvoke raised
ProcessRaises ==
    /\ wf_pc = "awaiting"
    /\ \E a \in DOMAIN tasks :
          /\ tasks[a] = "invoking"
          /\ agent_execution_status' = Put(agent_execution_status, a, "error")
          /\ tasks' = RoundAfterError(tasks, a)
    /\ UNCHANGED <<wf_pc, agent_configs, coordinator_agent, current_iteration,
                   max_iterations, stability_threshold, project_complete,
                   agent_outputs, last_update_iteration, executed_agents, attempt,
                   dispatch_log, stability_call>>
    /\ UNCHANGED nonSchedVars

\* the loop goes on as soon as one task has returned
FirstTaskAwaited(round) == \E a \in DOMAIN round : round[a] = "returned"
\* lines 97-99: for agent, task in tasks: state = await task
AllTasksAwaited(round) == \A a \in DOMAIN round : round[a] = "returned"

\* lines 97-102: every task of the attempt has been awaited
AwaitTasks ==
    /\ wf_pc = "awaiting"
    /\ AllTasksAwaited(tasks)
    /\ executed_agents' = executed_agents \cup DOMAIN tasks
    /\ attempt' = attempt + 1
    /\ tasks' = EmptyDict
    /\ wf_pc' = "attempt"
    /\ UNCHANGED <<agent_configs, coordinator_agent, current_iteration,
                   max_iterations, stability_threshold, project_complete,
                   agent_outputs, last_update_iteration, agent_execution_status,
                   dispatch_log, stability_call>>
    /\ UNCHANGED nonSchedVars

\* _should_continue, lines 413-420
ShouldContinue ==
    /\ wf_pc = "should_continue"
    /\ IF project_complete
       THEN /\ wf_pc' = "end"
            /\ UNCHANGED current_iteration
       ELSE /\ current_iteration < MaxIterations
            /\ current_iteration' = current_iteration + 1
            /\ wf_pc' = "coordinator"
    /\ UNCHANGED <<agent_configs, coordinator_agent, max_iterations,
                   stability_threshold, project_complete, agent_outputs,
                   last_update_iteration, agent_execution_status, executed_agents,
                   attempt, tasks, dispatch_log, stability_call>>
    /\ UNCHANGED nonSchedVars

SchedNext ==
    \/ CoordinatorAgentProcess
    \/ CoordinatorFallback
    \/ AggregatorEnter
    \/ DispatchReady
    \/ AggregatorReturn
    \/ ProcessStart
    \/ ProcessStoresOutput
    \/ ProcessWithoutOutput
    \/ ProcessRaises
    \/ AwaitTasks
    \/ ShouldContinue

(***************************************************************************)
(* check_stability as a function of the run state.                         *)
(***************************************************************************)
\* a run state: the iteration, the threshold and the tracked agents, each
\* last updated at -1 (never) or at an iteration up to the current one
StabilityStates ==
    /\ current_iteration \in 0..MaxIterations
    /\ stability_threshold \in 1..MaxThreshold
    /\ max_iterations = MaxIterations
    /\ \E tracked \in SUBSET AgentNames :
          /\ last_update_iteration \in [tracked -> -1..current_iteration]
          /\ agent_configs = [a \in tracked |-> {}]
          /\ agent_outputs = [a \in tracked |-> EmptyDict]
          /\ agent_execution_status = [a \in tracked |-> "ready"]
    /\ coordinator_agent = None
    /\ project_complete = FALSE
    /\ wf_pc = "idle"
    /\ executed_agents = {}
    /\ attempt = 0
    /\ tasks = EmptyDict
    /\ dispatch_log = {}
    /\ stability_call = NoStabilityCall

CheckStability ==
    /\ stability_call = NoStabilityCall
    /\ stability_call' = [op |-> "check_stability",
                          current_iteration |-> current_iteration,
                          stability_threshold |-> stability_threshold,
                          last_update_iteration |-> last_update_iteration,
                          result |-> check_stability]
    /\ UNCHANGED <<wf_pc, agent_configs, coordinator_agent, current_iteration,
                   max_iterations, stability_threshold, project_complete,
                   agent_outputs, last_update_iteration, agent_execution_status,
                   executed_agents, attempt, tasks, dispatch_log>>
    /\ UNCHANGED nonSchedVars

StabilityNext == CheckStability

(***************************************************************************)
(* BaseAgent.process as a function of the run state.                       *)
(***************************************************************************)
\* the outputs an agent has stored in the iterations of ran_in, each stamped
\* with its iteration
OutputHistories(ran_in) ==
    {[k \in ran_in |-> StampIteration(AgentOutput(value[k]), k)] :
        value \in [ran_in -> OutputValues]}

\* last_update_iteration as the earlier process calls left it: the latest
\* iteration whose output was the first or differed from the one before it,
\* and -1 (state.py line 77) when there is none
LastUpdateAfter(history) ==
    LET changed == {k \in DOMAIN history :
                      LET before == {j \in DOMAIN history : j < k} IN
                      \/ before = {}
                      \/ history[k].value # history[Max(before)].value}
    IN  IF changed = {} THEN -1 ELSE Max(changed)

\* a run state in which the aggregator has created the task of one agent in
\* iteration current_iteration: the agent has outputs of any earlier
\* iterations, and the coordinator output in force names a task for it or not
ProcessStates ==
    /\ current_iteration \in 1..MaxIterations
    /\ max_iterations = MaxIterations
    /\ stability_threshold = MaxThreshold
    /\ coordinator_agent = "DynamicCoordinator"
    /\ project_complete = FALSE
    /\ \E a \in WorkerNames, ran_in \in SUBSET (0..(current_iteration - 1)),
          agent_tasks \in SUBSET WorkerNames :
          /\ agent_tasks \subseteq {a}
          /\ agent_configs = [n \in {a} |-> {}]
          /\ \E history \in OutputHistories(ran_in) :
                /\ agent_outputs =
                      [n \in {a, "coordinator"} |->
                          IF n = a THEN history
                          ELSE [k \in {0} |-> CoordinatorOutput(agent_tasks, FALSE)]]
                /\ last_update_iteration = [n \in {a} |-> LastUpdateAfter(history)]
          /\ agent_execution_status =
                [n \in {a} |-> IF ran_in = {} THEN "ready" ELSE "completed"]
          /\ tasks = [n \in {a} |-> "created"]
          /\ dispatch_log = {[agent |-> a, iteration |-> current_iteration, attempt |-> 0,
                              dependencies_with_output |-> {}]}
    /\ wf_pc = "awaiting"
    /\ executed_agents = {}
    /\ attempt = 0
    /\ stability_call = NoStabilityCall

(***************************************************************************)
(* _check_completion_conditions as a function of the run state.            *)
(***************************************************************************)
\* agent_execution_status values: add_agent (state.py line 79), BaseAgent.process
ExecutionStatuses == {"ready", "running", "completed", "error"}

\* a run state at the coordinator node of an iteration > 0 of a builder
\* without a coordinator agent: the tracked agents, each never updated or
\* updated in the current iteration, each in any execution status
CompletionStates ==
    /\ current_iteration \in 1..MaxIterations
    /\ max_iterations \in 1..MaxIterations
    /\ stability_threshold \in 1..MaxThreshold
    /\ \E tracked \in SUBSET AgentNames :
          /\ last_update_iteration \in [tracked -> {-1, current_iteration}]
          /\ agent_execution_status \in [tracked -> ExecutionStatuses]
          /\ agent_configs = [a \in tracked |-> {}]
          /\ agent_outputs = [a \in tracked |-> EmptyDict]
    /\ coordinator_agent = None
    /\ project_complete = FALSE
    /\ wf_pc = "coordinator"
    /\ executed_agents = {}
    /\ attempt = 0
    /\ tasks = EmptyDict
    /\ dispatch_log = {}
    /\ stability_call = NoStabilityCall

\* the steps of one process call
ProcessNext ==
    \/ ProcessStart
    \/ ProcessStoresOutput
    \/ ProcessWithoutOutput
    \/ ProcessRaises

CompletionNext == CoordinatorFallback

(***************************************************************************)
(* The API handlers: api/v1/endpoints/agents.py and LangGraphService.      *)
(***************************************************************************)
\* _check_any_agents_running, langgraph_service.py lines 72-78
check_any_agents_running ==
    \E a \in AgentNames : agents[a].status = "running"

\* _set_all_agents_status, lines 29-36: update(Agent).values(status=status)
set_all_agents_status(t, status) ==
    [a \in AgentNames |->
        IF t[a].status = "absent" THEN t[a] ELSE [t[a] EXCEPT !.status = status]]

\* the tables the handlers start from: the coordinator row and each worker
\* missing, inactive or in error
ApiTables ==
    {("coordinator" :> [status |-> "inactive", dependencies |-> <<>>]) @@ t :
        t \in WorkerTables(WorkerNames, 0)}

\* no request has arrived
ApiIdle ==
    /\ lifecycle_pc = "idle"
    /\ start_pc = "idle"
    /\ workflow_status = None
    /\ background_pc = "none"

\* agents.py lines 25-32, called first by create_agent (line 66), update_agent
\* and delete_agent: HTTP 400 when an agent is RUNNING
CheckAgentsNotRunning ==
    /\ lifecycle_pc = "idle"
    /\ lifecycle_pc' = IF check_any_agents_running THEN "rejected" ELSE "checked"
    /\ UNCHANGED <<start_pc, workflow_status, background_pc>>
    /\ UNCHANGED <<sagaVars, graphVars, schedVars, messageVars, storeVars>>

\* agents.py lines 82-83 (and the update and delete handlers): the handler
\* builds the AtomicOperation and hands it to _execute_atomic_operation
BuildOperation ==
    /\ lifecycle_pc = "checked"
    /\ saga_pc = "idle"
    /\ operation' \in Operations
    /\ saga_pc' = "created"
    /\ lifecycle_pc' = "operating"
    /\ UNCHANGED <<step_index, completed_steps, failed_step, success,
                   rollback_completed, rollback_index, active_operations,
                   saga_result, executed_log, rollback_log, rollback_errors,
                   db_rollbacks>>
    /\ UNCHANGED <<start_pc, workflow_status, background_pc>>
    /\ UNCHANGED <<graphVars, schedVars, messageVars, storeVars>>

\* agents.py lines 85-111: the operation returned and the handler answers
LifecycleRespond ==
    /\ lifecycle_pc = "operating"
    /\ saga_pc = "done"
    /\ lifecycle_pc' = "responded"
    /\ UNCHANGED <<start_pc, workflow_status, background_pc>>
    /\ UNCHANGED <<sagaVars, graphVars, schedVars, messageVars, storeVars>>

\* start_workflow, lines 111-113
StartWorkflowCheck ==
    /\ start_pc = "idle"
    /\ start_pc' = IF check_any_agents_running THEN "failing" ELSE "checked"
    /\ UNCHANGED <<lifecycle_pc, workflow_status, background_pc>>
    /\ UNCHANGED <<sagaVars, graphVars, schedVars, messageVars, storeVars>>

\* lines 115-122: validate_workflow_compatibility reports the agents
\* compatible or not (its prompt validations included)
StartWorkflowValidate ==
    /\ start_pc = "checked"
    /\ \E compatible \in BOOLEAN :
          start_pc' = IF compatible THEN "validated" ELSE "failing"
    /\ UNCHANGED <<lifecycle_pc, workflow_status, background_pc>>
    /\ UNCHANGED <<sagaVars, graphVars, schedVars, messageVars, storeVars>>

\* lines 124-126: every agent row is set to RUNNING, or the update fails
StartWorkflowSetRunning ==
    /\ start_pc = "validated"
    /\ \E updated \in BOOLEAN :
          IF updated
          THEN /\ agents' = set_all_agents_status(agents, "running")
               /\ start_pc' = "running_set"
          ELSE /\ UNCHANGED agents
               /\ start_pc' = "failing"
    /\ UNCHANGED <<agent_rows, dm_call>>
    /\ UNCHANGED <<lifecycle_pc, workflow_status, background_pc>>
    /\ UNCHANGED <<sagaVars, schedVars, messageVars, storeVars>>

\* lines 128-156: the PENDING record and the background task
StartWorkflowLaunch ==
    /\ start_pc = "running_set"
    /\ workflow_status' = "pending"
    /\ background_pc' = "scheduled"
    /\ start_pc' = "started"
    /\ UNCHANGED lifecycle_pc
    /\ UNCHANGED <<sagaVars, graphVars, schedVars, messageVars, storeVars>>

\* lines 158-162: the except branch sets every agent row to INACTIVE
StartWorkflowFails ==
    /\ start_pc = "failing"
    /\ agents' = set_all_agents_status(agents, "inactive")
    /\ start_pc' = "failed"
    /\ UNCHANGED <<agent_rows, dm_call>>
    /\ UNCHANGED <<lifecycle_pc, workflow_status, background_pc>>
    /\ UNCHANGED <<sagaVars, schedVars, messageVars, storeVars>>

\* _execute_workflow_async, lines 175-177
BackgroundBegins ==
    /\ background_pc = "scheduled"
    /\ workflow_status' = "running"
    /\ background_pc' = "executing"
    /\ UNCHANGED <<lifecycle_pc, start_pc>>
    /\ UNCHANGED <<sagaVars, graphVars, schedVars, messageVars, storeVars>>

\* lines 182-217: the run returns or raises; the record is completed or
\* failed and every agent row is set to INACTIVE
BackgroundEnds ==
    /\ background_pc = "executing"
    /\ \E outcome \in {"completed", "failed"} : workflow_status' = outcome
    /\ agents' = set_all_agents_status(agents, "inactive")
    /\ background_pc' = "done"
    /\ UNCHANGED <<agent_rows, dm_call>>
    /\ UNCHANGED <<lifecycle_pc, start_pc>>
    /\ UNCHANGED <<sagaVars, schedVars, messageVars, storeVars>>

ApiNext ==
    \/ CheckAgentsNotRunning
    \/ BuildOperation
    \/ LifecycleRespond
    \/ RegisterOperation
    \/ StepSucceeds
    \/ StepFails
    \/ RollbackStep
    \/ FinishRollback
    \/ CompleteOperation
    \/ StartWorkflowCheck
    \/ StartWorkflowValidate
    \/ StartWorkflowSetRunning
    \/ StartWorkflowLaunch
    \/ StartWorkflowFails
    \/ BackgroundBegins
    \/ BackgroundEnds

(***************************************************************************)
(* LangGraphService: the background task with the control loop it runs,    *)
(* and stop_workflow.                                                      *)
(***************************************************************************)
\* get_current_agent_configurations, workflows/builder.py lines 27-66: a
\* configuration for every INACTIVE or RUNNING row
CurrentAgentConfigurations(t) ==
    [a \in {n \in AgentNames : t[n].status \in EligibleStatuses} |->
        Range(t[a].dependencies)]

\* _execute_workflow_async, lines 182-187, with
\* DynamicWorkflowBuilderService.execute_workflow (builder.py lines 277-323)
\* and DynamicWorkflowBuilder.execute_workflow (langgraph.py lines 422-451):
\* the graph is built from the current rows by a builder whose
\* _coordinator_agent is None, and the run starts at the coordinator node
ExecuteWorkflow ==
    /\ background_pc = "executing"
    /\ wf_pc = "idle"
    /\ agent_configs' = CurrentAgentConfigurations(agents)
    /\ coordinator_agent' = None
    /\ max_iterations' \in 1..MaxIterations
    /\ stability_threshold' \in 1..MaxThreshold
    /\ current_iteration' = 0
    /\ project_complete' = FALSE
    /\ agent_outputs' = [a \in DOMAIN agent_configs' |-> EmptyDict]
    /\ last_update_iteration' = [a \in DOMAIN agent_configs' |-> -1]
    /\ agent_execution_status' = [a \in DOMAIN agent_configs' |-> "ready"]
    /\ wf_pc' = "coordinator"
    /\ UNCHANGED <<executed_agents, attempt, tasks, dispatch_log, stability_call>>
    /\ UNCHANGED nonSchedVars

\* lines 189-210 with _update_workflow_completion (lines 411-452) and
\* _set_all_agents_status: the graph reached END; the record is written
\* COMPLETED whatever status it holds
WorkflowCompletion ==
    /\ background_pc = "executing"
    /\ wf_pc = "end"
    /\ workflow_status' = "completed"
    /\ agents' = set_all_agents_status(agents, "inactive")
    /\ background_pc' = "done"
    /\ UNCHANGED <<agent_rows, dm_call>>
    /\ UNCHANGED <<lifecycle_pc, start_pc>>
    /\ UNCHANGED <<sagaVars, schedVars, messageVars, storeVars>>

\* lines 189-190, 212-217 with _update_workflow_error (lines 454-471): the
\* build failed, or the graph raised between two nodes; the record is written
\* FAILED whatever status it holds
WorkflowError ==
    /\ background_pc = "executing"
    /\ wf_pc \in {"idle", "coordinator"}
    /\ workflow_status' = "failed"
    /\ agents' = set_all_agents_status(agents, "inactive")
    /\ background_pc' = "done"
    /\ wf_pc' = "raised"
    /\ UNCHANGED <<agent_rows, dm_call>>
    /\ UNCHANGED <<lifecycle_pc, start_pc>>
    /\ UNCHANGED <<agent_configs, coordinator_agent, current_iteration,
                   max_iterations, stability_threshold, project_complete,
                   agent_outputs, last_update_iteration, agent_execution_status,
                   executed_agents, attempt, tasks, dispatch_log, stability_call>>
    /\ UNCHANGED <<sagaVars, messageVars, storeVars>>

\* stop_workflow, lines 268-302: accepted while the record is RUNNING or
\* PENDING (a refused request changes nothing).  The record is written
\* STOPPED and every agent row INACTIVE; the background task is not told.
StopWorkflow ==
    /\ workflow_status \in {"running", "pending"}
    /\ workflow_status' = "stopped"
    /\ agents' = set_all_agents_status(agents, "inactive")
    /\ UNCHANGED <<agent_rows, dm_call>>
    /\ UNCHANGED <<lifecycle_pc, start_pc, background_pc>>
    /\ UNCHANGED <<sagaVars, schedVars, messageVars, storeVars>>

ServiceNext ==
    \/ StartWorkflowCheck
    \/ StartWorkflowValidate
    \/ StartWorkflowSetRunning
    \/ StartWorkflowLaunch
    \/ StartWorkflowFails
    \/ BackgroundBegins
    \/ ExecuteWorkflow
    \/ CoordinatorFallback
    \/ AggregatorEnter
    \/ DispatchReady
    \/ AggregatorReturn
    \/ ProcessStart
    \/ AwaitTasks
    \/ ShouldContinue
    \/ WorkflowCompletion
    \/ WorkflowError
    \/ StopWorkflow

ApiTablesAtRest ==
    /\ agents \in ApiTables
    /\ agent_rows = CreationOrder(agents)
    /\ dm_call = NoCall

\* a start request arrives while no workflow runs, or while the background
\* task of an earlier start, which set every row to RUNNING, is executing
StartRequested ==
    /\ \E t \in ApiTables, running \in BOOLEAN :
          /\ agents = IF running THEN set_all_agents_status(t, "running") ELSE t
          /\ agent_rows = CreationOrder(t)
          /\ workflow_status = IF running THEN "running" ELSE None
          /\ background_pc = IF running THEN "executing" ELSE "none"
    /\ dm_call = NoCall
    /\ lifecycle_pc = "idle"
    /\ start_pc = "idle"

\* start_workflow with the background task of the workflow that runs
StartNext ==
    \/ StartWorkflowCheck
    \/ StartWorkflowValidate
    \/ StartWorkflowSetRunning
    \/ StartWorkflowLaunch
    \/ StartWorkflowFails
    \/ BackgroundBegins
    \/ BackgroundEnds

(***************************************************************************)
(* DynamicGlobalState: add_agent, remove_agent and the conversations.      *)
(***************************************************************************)
\* most messages sent in a run of the model
MaxMessages == 2

\* agent names (schemas/agent.py line 9: ^[a-zA-Z][a-zA-Z0-9_]*$), listed in
\* the order Python's sorted() puts them
MessageAgentsSorted == <<"a", "a_b", "b_c", "c">>

MessageAgents == Range(MessageAgentsSorted)

\* sorted([agent1, agent2])
sorted(agent1, agent2) ==
    IF IndexOf(MessageAgentsSorted, agent1) <= IndexOf(MessageAgentsSorted, agent2)
    THEN <<agent1, agent2>>
    ELSE <<agent2, agent1>>

\* "_".join(sorted([agent1, agent2])), lines 99, 104, 117
conversation_key(agent1, agent2) ==
    sorted(agent1, agent2)[1] \o "_" \o sorted(agent1, agent2)[2]

\* AgentConversation(participants=sorted([agent1, agent2])), line 105
AgentConversation(agent1, agent2) ==
    [participants |-> sorted(agent1, agent2), messages |-> <<>>]

\* what get_conversation returns for a key that is not in the dict
NoConversation == [participants |-> <<>>, messages |-> <<>>]

\* get_conversation, lines 97-100
get_conversation(agent1, agent2) ==
    IF conversation_key(agent1, agent2) \in DOMAIN conversations
    THEN conversations[conversation_key(agent1, agent2)]
    ELSE NoConversation

\* AgentMessage, lines 121-129; the timestamp is the position in call order
AgentMessage(from_agent, to_agent, timestamp) ==
    [from_agent |-> from_agent, to_agent |-> to_agent,
     timestamp |-> timestamp, iteration |-> current_iteration]

\* dict.pop(key, None)
Pop(d, key) == [x \in DOMAIN d \ {key} |-> d[x]]

\* lines 88-95 looking at the first participant only
ConversationsWithoutAsFirst(convs, agent_name) ==
    [k \in {key \in DOMAIN convs : convs[key].participants[1] # agent_name} |->
        convs[k]]
\* lines 88-95: the conversations the agent is no participant of
ConversationsWithout(convs, agent_name) ==
    [k \in {key \in DOMAIN convs : agent_name \notin Range(convs[key].participants)} |->
        convs[k]]

NoStateCall == [op |-> "none"]

\* DynamicGlobalState(), lines 39-69: no conversation yet
MessagesIdle ==
    /\ conversations = EmptyDict
    /\ sent_log = <<>>
    /\ state_call = NoStateCall

\* the state execute_workflow starts from (workflows/langgraph.py lines
\* 436-449): add_agent (lines 71-79) called for every configured agent
StateCreated ==
    /\ agent_configs = [a \in MessageAgents |-> {}]
    /\ agent_outputs = [a \in MessageAgents |-> EmptyDict]
    /\ last_update_iteration = [a \in MessageAgents |-> -1]
    /\ agent_execution_status = [a \in MessageAgents |-> "ready"]
    /\ coordinator_agent = None
    /\ max_iterations = 1
    /\ stability_threshold = 1
    /\ current_iteration = 0
    /\ project_complete = FALSE
    /\ wf_pc = "idle"
    /\ executed_agents = {}
    /\ attempt = 0
    /\ tasks = EmptyDict
    /\ dispatch_log = {}
    /\ stability_call = NoStabilityCall

\* remove_agent, lines 81-95
RemoveAgent ==
    /\ \E agent_name \in MessageAgents :
          /\ agent_configs' = Pop(agent_configs, agent_name)
          /\ agent_outputs' = Pop(agent_outputs, agent_name)
          /\ last_update_iteration' = Pop(last_update_iteration, agent_name)
          /\ agent_execution_status' = Pop(agent_execution_status, agent_name)
          /\ conversations' = ConversationsWithout(conversations, agent_name)
          /\ state_call' = [op |-> "remove_agent", agent_name |-> agent_name]
    /\ UNCHANGED sent_log
    /\ UNCHANGED <<wf_pc, coordinator_agent, current_iteration, max_iterations,
                   stability_threshold, project_complete, executed_agents,
                   attempt, tasks, dispatch_log, stability_call>>
    /\ UNCHANGED <<sagaVars, graphVars, apiVars, storeVars>>

\* send_message, lines 109-135, with create_conversation (lines 102-107) and
\* AgentConversation.add_message (lines 25-28)
SendMessage ==
    /\ Len(sent_log) < MaxMessages
    /\ \E from_agent \in MessageAgents, to_agent \in MessageAgents :
          LET key == conversation_key(from_agent, to_agent)
              message == AgentMessage(from_agent, to_agent, Len(sent_log) + 1)
              existing == IF key \in DOMAIN conversations THEN conversations[key]
                          ELSE AgentConversation(from_agent, to_agent)
          IN  /\ conversations' =
                    Put(conversations, key,
                        [existing EXCEPT !.messages = Append(@, message)])
              /\ sent_log' = Append(sent_log, message)
              /\ state_call' = [op |-> "send_message", agent_name |-> from_agent]
    /\ UNCHANGED schedVars
    /\ UNCHANGED <<sagaVars, graphVars, apiVars, storeVars>>

StateNext ==
    \/ RemoveAgent
    \/ SendMessage

MessagesNext == SendMessage

(***************************************************************************)
(* The lifecycle operations with what their steps do: the agents table,    *)
(* the columns of the rows, and the files of the agents.                   *)
(***************************************************************************)
\* the columns update_agent_record can set besides dependencies (lines 242-249)
FieldNames == {"display_name", "role", "llm_name", "temperature", "max_tokens"}

\* the columns of a name without a row
NoFields == [f \in FieldNames |-> None]

\* the columns as create_agent_record writes them (lines 562-577)
CreatedFields == [f \in FieldNames |-> "v1"]

\* agent_data.model_dump(exclude_unset=True) of an AgentUpdate, dependencies
\* aside: the columns the request sets, each to a new value; the requests of
\* the model set none of the columns, one of them, or all
UpdateData == {[f \in S |-> "v2"] : S \in {{}, {"display_name"}, FieldNames}}

\* the files of an agent: uploads/agents/NAME and generated/{agents,models}
FileKinds == {"uploaded", "generated"}

NoRequest == [type |-> None]

\* no lifecycle operation has been built
StoreIdle ==
    /\ agent_data = NoRequest
    /\ agent_fields = [a \in AgentNames |-> NoFields]
    /\ artifacts = [a \in AgentNames |-> {}]
    /\ step_results = <<>>
    /\ original_data = NoRequest

\* the arguments of create_agent_atomically, update_agent_atomically and
\* delete_agent_atomically
Request(type, agent_name, dependencies_set, dependencies, update_data, files, force) ==
    [type |-> type, agent_name |-> agent_name,
     dependencies_set |-> dependencies_set, dependencies |-> dependencies,
     update_data |-> update_data, files |-> files, force_cascade |-> force]

\* the most dependency entries the store holds when a request arrives, the
\* request's own list counted in
MaxStoredEdges == 2

\* the requests the endpoints hand on for table t: a create for a name
\* without a row (agents.py lines 68-78), an update for a row that exists
\* (line 176), a delete for any name
Requests(t) ==
    {Request("create_agent", a, TRUE, d, <<>>, TRUE, FALSE) :
        a \in {x \in WorkerNames : t[x].status = "absent"},
        d \in {l \in DependencyLists : Len(l) + TotalEdges(t, AgentNames) <= MaxStoredEdges}}
    \cup
    {Request("update_agent", a, g[1], g[2], u, f, FALSE) :
        a \in {x \in AgentNames : t[x].status # "absent"},
        g \in {<<FALSE, <<>> >>} \cup
              {<<TRUE, l>> : l \in {l \in DependencyLists :
                                     Len(l) + TotalEdges(t, AgentNames) <= MaxStoredEdges}},
        u \in UpdateData,
        f \in BOOLEAN}
    \cup
    {Request("delete_agent", a, FALSE, <<>>, <<>>, FALSE, c) :
        a \in AgentNames, c \in BOOLEAN}

\* the operation the entry point builds for the request
OperationFor(r) ==
    CASE r.type = "create_agent" ->
            AtomicOperation("create_agent", CreateAgentSteps(r.dependencies # <<>>))
      [] r.type = "update_agent" ->
            AtomicOperation("update_agent",
                            UpdateAgentSteps(r.dependencies_set, r.files,
                                             r.dependencies_set \/ DOMAIN r.update_data # {}))
      [] r.type = "delete_agent" ->
            AtomicOperation("delete_agent", DeleteAgentSteps)

\* the tables, the columns and the files a step reads and writes
Store == [agents |-> agents, agent_rows |-> agent_rows,
          agent_fields |-> agent_fields, artifacts |-> artifacts]

\* the row of agent_name deleted: db.delete(agent), commit
WithoutRow(st, agent_name) ==
    [st EXCEPT !.agents[agent_name] = [status |-> "absent", dependencies |-> <<>>],
               !.agent_rows = SelectSeq(@, LAMBDA a : a # agent_name),
               !.agent_fields[agent_name] = NoFields]

RECURSIVE WithoutRows(_, _, _)
\* lines 280-290 of execute_safe_deletion: the rows of the deletion order
WithoutRows(st, deletion_order, k) ==
    IF k > Len(deletion_order) THEN st
    ELSE WithoutRows(WithoutRow(st, deletion_order[k]), deletion_order, k + 1)

\* what _execute_step ends with: an exception or a return value, and the
\* store it leaves
Raised(st) == [raised |-> TRUE, result |-> None, store |-> st]
Returned(result, st) == [raised |-> FALSE, result |-> result, store |-> st]

\* DependencyManager.execute_safe_deletion, lines 262-336, on the current
\* store; set_order as in analyze_deletion_impact, commit_ok whether the
\* deletes and the commit went through
execute_safe_deletion(agent_name, force_cascade, set_order, commit_ok) ==
    LET plan == analyze_deletion_impact(agent_name, set_order) IN
    IF plan = RecursionError THEN Raised(Store)
    ELSE IF ~plan.can_delete_safely /\ ~force_cascade
    THEN Returned([success |-> FALSE, requires_cascade |-> TRUE,
                   deletion_plan |-> plan], Store)
    ELSE IF force_cascade /\ plan.cascade_deletion_required
    THEN IF commit_ok
         THEN Returned([success |-> TRUE, deleted_agents |-> plan.deletion_order,
                        cascade_deletion |-> TRUE, deletion_plan |-> plan],
                       WithoutRows(Store, plan.deletion_order, 1))
         ELSE Returned([success |-> FALSE, error |-> "Cascade deletion failed",
                        deletion_plan |-> plan], Store)
    ELSE IF agents[agent_name].status = "absent"
    THEN Returned([success |-> FALSE, error |-> "not found"], Store)
    ELSE IF commit_ok
    THEN Returned([success |-> TRUE, deleted_agents |-> <<agent_name>>,
                   cascade_deletion |-> FALSE, deletion_plan |-> plan],
                  WithoutRow(Store, agent_name))
    ELSE Returned([success |-> FALSE, error |-> "Deletion failed"], Store)

\* the orders in which the set affected_agents can be iterated
SetOrders(agent_name) ==
    Orderings(AffectedAgents(get_dependency_graph, <<agent_name>>, {}))

\* _execute_dependency_manager_step, lines 439-479
execute_dependency_manager_step(op, p) ==
    CASE op = "validate_circular_dependencies" ->
            IF validate_circular_dependencies(p.agent_name, p.dependencies) # <<>>
            THEN {Raised(Store)}
            ELSE {Returned([valid |-> TRUE], Store), Raised(Store)}
      [] op = "analyze_deletion_impact" ->
            {IF analyze_deletion_impact(p.agent_name, o) = RecursionError
             THEN Raised(Store)
             ELSE Returned(analyze_deletion_impact(p.agent_name, o), Store) :
                o \in SetOrders(p.agent_name)}
            \cup {Raised(Store)}
      [] op = "execute_safe_deletion" ->
            {execute_safe_deletion(p.agent_name, p.force_cascade, o, c) :
                o \in SetOrders(p.agent_name), c \in BOOLEAN}
            \cup {Raised(Store)}
      [] op = "update_agent_dependencies" ->
            {LET r == update_agent_dependencies(p.agent_name, p.dependencies, c)
             IN  Returned(r.result, [Store EXCEPT !.agents = r.agents]) :
                c \in BOOLEAN}
            \cup {Raised(Store)}
      [] OTHER -> {Raised(Store)}

\* AgentFactory.create_agent, lines 24-91: the files written when the call
\* raises before save_agent_files, between it and _save_generated_files, and
\* inside _save_generated_files
FilesOfFailedCreate == {{}, {"uploaded"}, FileKinds}

\* AgentFactory.delete_agent, lines 350-370.  FileProcessor.delete_agent_files
\* returns False on an error (lines 470-472) and the return value is dropped,
\* so the uploaded files can stay while delete_agent returns True; an error
\* of unlink is caught and False returned
delete_agent(agent_name) ==
    {Returned([deleted |-> TRUE], [Store EXCEPT !.artifacts[agent_name] = left]) :
        left \in {{}, artifacts[agent_name] \cap {"uploaded"}}}
    \cup
    {Returned([deleted |-> FALSE], [Store EXCEPT !.artifacts[agent_name] = left]) :
        left \in {artifacts[agent_name], artifacts[agent_name] \ {"uploaded"}}}

\* _execute_agent_factory_step, lines 481-512
execute_agent_factory_step(op, p) ==
    CASE op = "validate_agent_files" ->
            {Returned([is_valid |-> TRUE], Store), Raised(Store)}
      [] op = "create_agent" ->
            {Returned([name |-> p.agent_name],
                      [Store EXCEPT !.artifacts[p.agent_name] = FileKinds])}
            \cup
            {Raised([Store EXCEPT !.artifacts[p.agent_name] = @ \cup written]) :
                written \in FilesOfFailedCreate}
      [] op \in {"update_agent_files", "update_agent_metadata"} ->
            {Returned([updated |-> TRUE], Store), Raised(Store)}
      [] op = "delete_agent" -> delete_agent(p.agent_name)
      [] OTHER -> {Raised(Store)}

\* _execute_prompt_manager_step, lines 514-532
execute_prompt_manager_step(op, p) ==
    CASE op = "cascade_update_on_agent_addition" ->
            IF agents[p.agent_name].status = "absent" THEN {Raised(Store)}
            ELSE {Returned([success |-> TRUE], Store), Raised(Store)}
      [] op \in {"cascade_update_on_agent_removal",
                 "cascade_update_on_agent_modification"} ->
            {Returned([success |-> TRUE], Store), Raised(Store)}
      [] OTHER -> {Raised(Store)}

\* _execute_workflow_builder_step, lines 534-543
execute_workflow_builder_step(op, p) ==
    IF op = "rebuild_workflow_on_agent_change"
    THEN {Returned([success |-> TRUE], Store), Raised(Store)}
    ELSE {Raised(Store)}

\* lines 596-599: setattr for every field the request sets; dependencies is
\* one of them
UpdatedRow(row, agent_request) ==
    IF agent_request.dependencies_set
    THEN [row EXCEPT !.dependencies = agent_request.dependencies]
    ELSE row

\* lines 596-599: the columns after the setattr loop
UpdatedFields(fields, update_data) ==
    [f \in FieldNames |-> IF f \in DOMAIN update_data THEN update_data[f] ELSE fields[f]]

\* _execute_database_step, lines 545-617
execute_database_step(op, p) ==
    CASE op = "create_agent_record" ->
            IF agents[p.agent_name].status # "absent" THEN {Raised(Store)}
            ELSE {Returned([name |-> p.agent_name],
                           [Store EXCEPT
                               !.agents[p.agent_name] =
                                   [status |-> "inactive", dependencies |-> p.dependencies],
                               !.agent_rows = Append(@, p.agent_name),
                               !.agent_fields[p.agent_name] = CreatedFields]),
                  Raised(Store)}
      [] op = "update_agent_record" ->
            IF agents[p.agent_name].status = "absent" THEN {Raised(Store)}
            ELSE {Returned([name |-> p.agent_name],
                           [Store EXCEPT
                               !.agents[p.agent_name] = UpdatedRow(@, p),
                               !.agent_fields[p.agent_name] =
                                   UpdatedFields(@, p.update_data)]),
                  Raised(Store)}
      [] op = "delete_agent_record" ->
            {Returned([deleted |-> TRUE],
                      IF agents[p.agent_name].status = "absent" THEN Store
                      ELSE WithoutRow(Store, p.agent_name)),
             Raised(Store)}
      [] OTHER -> {Raised(Store)}

\* _execute_step, lines 423-437: the ways the step can end
execute_step(service, op, p) ==
    CASE service = "dependency_manager" -> execute_dependency_manager_step(op, p)
      [] service = "agent_factory" -> execute_agent_factory_step(op, p)
      [] service = "prompt_manager" -> execute_prompt_manager_step(op, p)
      [] service = "workflow_builder" -> execute_workflow_builder_step(op, p)
      [] service = "database" -> execute_database_step(op, p)
      [] OTHER -> {Raised(Store)}

\* step.rollback_parameters: the update's dependency step restores
\* current_agent.dependencies (line 192); every other rollback step names
\* the agent only
RollbackParameters ==
    [agent_data EXCEPT !.dependencies = original_data.agents[agent_data.agent_name].dependencies]

(***************************************************************************)
(* SpecLifecycle: _execute_atomic_operation and _rollback_operation over   *)
(* the operation built for a request, each step acting on the store.       *)
(***************************************************************************)
\* the tables a request arrives at: every row inactive or absent
LifecycleTables ==
    {("coordinator" :> [status |-> "inactive", dependencies |-> <<>>]) @@ t :
        t \in {w \in WorkerTables(WorkerNames, MaxStoredEdges) :
                  \A a \in WorkerNames : w[a].status # "error"}}

\* an entry point has built the operation for its request
LifecycleBuilt ==
    /\ agents \in LifecycleTables
    /\ agent_rows = CreationOrder(agents)
    /\ dm_call = NoCall
    /\ agent_fields = [a \in AgentNames |->
                          IF agents[a].status = "absent" THEN NoFields ELSE CreatedFields]
    /\ artifacts = [a \in AgentNames |->
                       IF agents[a].status = "absent" THEN {} ELSE FileKinds]
    /\ agent_data \in Requests(agents)
    /\ step_results = <<>>
    /\ original_data = [agents |-> agents, agent_fields |-> agent_fields,
                        artifacts |-> artifacts]
    /\ SagaCreated
    /\ operation = OperationFor(agent_data)

\* the store after a step
StoreBecomes(st) ==
    /\ agents' = st.agents
    /\ agent_rows' = st.agent_rows
    /\ agent_fields' = st.agent_fields
    /\ artifacts' = st.artifacts

\* lines 377-387: the step returns; step.result is kept and the index joins
\* completed_steps
StepReturns ==
    /\ saga_pc = "executing"
    /\ step_index <= Len(operation.steps)
    /\ LET step == operation.steps[step_index] IN
       \E outcome \in execute_step(step.service, step.operation, agent_data) :
          /\ ~outcome.raised
          /\ StoreBecomes(outcome.store)
          /\ step_results' = Append(step_results, outcome.result)
    /\ executed_log' = Append(executed_log, step_index)
    /\ completed_steps' = Append(completed_steps, step_index)
    /\ step_index' = step_index + 1
    /\ UNCHANGED <<operation, saga_pc, failed_step, success, rollback_completed,
                   rollback_index, active_operations, saga_result, rollback_log,
                   rollback_errors, db_rollbacks>>
    /\ UNCHANGED <<dm_call, schedVars, apiVars, messageVars, agent_data, original_data>>

\* lines 389-397: the step raises; the rollback sweep starts
StepRaises ==
    /\ saga_pc = "executing"
    /\ step_index <= Len(operation.steps)
    /\ LET step == operation.steps[step_index] IN
       \E outcome \in execute_step(step.service, step.operation, agent_data) :
          /\ outcome.raised
          /\ StoreBecomes(outcome.store)
    /\ executed_log' = Append(executed_log, step_index)
    /\ failed_step' = step_index
    /\ saga_pc' = "rolling_back"
    /\ rollback_index' = 1
    /\ UNCHANGED <<operation, step_index, completed_steps, success,
                   rollback_completed, active_operations, saga_result,
                   rollback_log, rollback_errors, db_rollbacks>>
    /\ UNCHANGED <<dm_call, schedVars, apiVars, messageVars, agent_data,
                   step_results, original_data>>

\* lines 625-644: one iteration of the rollback loop on the store
RollbackStepOnStore ==
    /\ saga_pc = "rolling_back"
    /\ rollback_index <= Len(completed_steps)
    /\ LET i == RollbackOrder(completed_steps)[rollback_index]
           step == operation.steps[i]
       IN  IF step.rollback_operation # None
           THEN /\ rollback_log' = Append(rollback_log, i)
                /\ \E outcome \in execute_step(step.service, step.rollback_operation,
                                               RollbackParameters) :
                      /\ StoreBecomes(outcome.store)
                      /\ rollback_errors' = IF outcome.raised
                                            THEN rollback_errors \cup {i}
                                            ELSE rollback_errors
                      /\ rollback_index' = ContinueSweep(rollback_index, outcome.raised,
                                                         Len(completed_steps))
           ELSE /\ rollback_index' = rollback_index + 1
                /\ UNCHANGED <<rollback_log, rollback_errors>>
                /\ UNCHANGED <<agents, agent_rows, agent_fields, artifacts>>
    /\ UNCHANGED <<operation, saga_pc, step_index, completed_steps, failed_step,
                   success, rollback_completed, active_operations, saga_result,
                   executed_log, db_rollbacks>>
    /\ UNCHANGED <<dm_call, schedVars, apiVars, messageVars, agent_data,
                   step_results, original_data>>

LifecycleNext ==
    \/ RegisterOperation
    \/ StepReturns
    \/ StepRaises
    \/ RollbackStepOnStore
    \/ FinishRollback
    \/ CompleteOperation

StartInit == StartRequested /\ SagaIdle /\ SchedIdle /\ MessagesIdle /\ StoreIdle

LifecycleInit == LifecycleBuilt /\ SchedIdle /\ ApiIdle /\ MessagesIdle

GraphInit == GraphTables /\ SagaIdle /\ SchedIdle /\ ApiIdle /\ MessagesIdle /\ StoreIdle

UpdateDepsInit == GraphTablesInCreationOrder /\ SagaIdle /\ SchedIdle /\ ApiIdle /\ MessagesIdle /\ StoreIdle

SagaInit == SagaCreated /\ GraphIdle /\ SchedIdle /\ ApiIdle /\ MessagesIdle /\ StoreIdle

StabilityInit == StabilityStates /\ SagaIdle /\ GraphIdle /\ ApiIdle /\ MessagesIdle /\ StoreIdle

SchedInit == SchedCreated /\ SagaIdle /\ GraphIdle /\ ApiIdle /\ MessagesIdle /\ StoreIdle

CompletionInit == CompletionStates /\ SagaIdle /\ GraphIdle /\ ApiIdle /\ MessagesIdle /\ StoreIdle

ProcessInit == ProcessStates /\ SagaIdle /\ GraphIdle /\ ApiIdle /\ MessagesIdle /\ StoreIdle

ApiInit == ApiTablesAtRest /\ SagaIdle /\ SchedIdle /\ ApiIdle /\ MessagesIdle /\ StoreIdle

ServiceInit == ApiTablesAtRest /\ SagaIdle /\ SchedIdle /\ ApiIdle /\ MessagesIdle /\ StoreIdle

StateInit == StateCreated /\ MessagesIdle /\ SagaIdle /\ GraphIdle /\ ApiIdle /\ StoreIdle

MessagesInit == StateCreated /\ MessagesIdle /\ GraphIdle /\ SagaIdle /\ ApiIdle /\ StoreIdle

SpecDetect == GraphInit /\ [][DetectNext]_vars

SpecDeletion == GraphInit /\ [][DeletionNext]_vars

SpecUpdateDeps == UpdateDepsInit /\ [][UpdateDepsNext]_vars

SpecSaga == SagaInit /\ [][SagaNext]_vars

SpecStability == StabilityInit /\ [][StabilityNext]_vars

SpecSched == SchedInit /\ [][SchedNext]_vars

SpecCompletion == CompletionInit /\ [][CompletionNext]_vars

SpecProcess == ProcessInit /\ [][ProcessNext]_vars

SpecApi == ApiInit /\ [][ApiNext]_vars

SpecService == ServiceInit /\ [][ServiceNext]_vars

SpecState == StateInit /\ [][StateNext]_vars

SpecMessages == MessagesInit /\ [][MessagesNext]_vars

SpecLifecycle == LifecycleInit /\ [][LifecycleNext]_vars

SpecStart == StartInit /\ [][StartNext]_vars

\* the event loop runs every task that can take a step: the start_workflow
\* coroutine and the background task with the workflow graph it executes;
\* stop_workflow is a request that may never come
ScheduledNext ==
    \/ StartWorkflowCheck
    \/ StartWorkflowValidate
    \/ StartWorkflowSetRunning
    \/ StartWorkflowLaunch
    \/ StartWorkflowFails
    \/ BackgroundBegins
    \/ ExecuteWorkflow
    \/ CoordinatorFallback
    \/ AggregatorEnter
    \/ DispatchReady
    \/ AggregatorReturn
    \/ ProcessStart
    \/ AwaitTasks
    \/ ShouldContinue
    \/ WorkflowCompletion
    \/ WorkflowError

SpecServiceFair == ServiceInit /\ [][ServiceNext]_vars /\ WF_vars(ScheduledNext)

(***************************************************************************)
(* Claims about the saga engine.                                           *)
(***************************************************************************)
\* <<k-1, k-2, ..., 1>>
Countdown(k) == [j \in 1..(k - 1) |-> k - j]

\* <<1, 2, ..., k>>
Countup(k) == [j \in 1..k |-> j]

RECURSIVE ExpectedRollbacks(_)
\* the rollback invocations a failure of step k must produce: k-1 down to 1,
\* leaving out the steps that declare no rollback operation
ExpectedRollbacks(k) ==
    IF k <= 1 THEN <<>>
    ELSE (IF HasRollback(k - 1) THEN <<k - 1>> ELSE <<>>) \o ExpectedRollbacks(k - 1)

\* C1 (as stated): once an operation that failed at step k is finished, the
\* rollback invocations are exactly k-1, k-2, ..., 1, one for every earlier step.
C1_Original ==
    (saga_pc = "done" /\ failed_step # 0) => rollback_log = Countdown(failed_step)

\* C1 (amended): steps run forward in list order; when step k fails, the steps
\* among 1..k-1 that declare a rollback operation each get exactly one rollback
\* invocation, in the order k-1, ..., 1; step k and later steps are not executed
\* after the failure and are never rolled back.
C1_RollbackReverseOrder ==
    /\ IsPrefix(executed_log, Countup(Len(operation.steps)))
    /\ failed_step # 0 =>
          /\ executed_log = Countup(failed_step)
          /\ IsPrefix(rollback_log, ExpectedRollbacks(failed_step))
          /\ saga_pc = "done" => rollback_log = ExpectedRollbacks(failed_step)

\* the spec's scenario: the 6-step create saga fails at step 4 (record creation)
C1_Witness ==
    /\ saga_pc = "done"
    /\ operation.operation_type = "create_agent"
    /\ Len(operation.steps) = 6
    /\ failed_step = 4
    /\ rollback_log = <<3, 2>>

\* C2: an operation whose steps all succeed invokes no rollback operation and
\* reports success with all of its steps completed.
C2_SuccessNoRollback ==
    (saga_pc = "done" /\ failed_step = 0) =>
        /\ rollback_log = <<>>
        /\ db_rollbacks = 0
        /\ ~rollback_completed
        /\ success
        /\ saga_result.success
        /\ saga_result.steps_completed = Len(operation.steps)
        /\ completed_steps = Countup(Len(operation.steps))

C2_Witness ==
    /\ saga_pc = "done"
    /\ success
    /\ operation.operation_type = "delete_agent"
    /\ saga_result.steps_completed = 5

\* the number of rollback invocations made for step i
RollbackAttempts(i) == Cardinality({k \in 1..Len(rollback_log) : rollback_log[k] = i})

\* C11: when a failed operation is finished, every completed step that
\* declares a rollback operation has had exactly one rollback attempt, also the
\* steps completed before a step whose rollback attempt raised; the steps
\* whose attempt raised are among the attempted ones.
C11_SweepSurvivesFailures ==
    (saga_pc = "done" /\ failed_step # 0) =>
        /\ \A k \in 1..Len(completed_steps) :
              HasRollback(completed_steps[k]) => RollbackAttempts(completed_steps[k]) = 1
        /\ \A i \in rollback_errors : RollbackAttempts(i) = 1

\* the rollback of a later-completed step raised and an earlier-completed step
\* was still rolled back after it, successfully
C11_Witness ==
    /\ saga_pc = "done"
    /\ failed_step # 0
    /\ \E j \in rollback_errors :
       \E k \in 1..Len(rollback_log) :
          /\ rollback_log[k] < j
          /\ rollback_log[k] \notin rollback_errors
          /\ \E h \in 1..(k - 1) : rollback_log[h] = j

\* C12: the result of a failed operation names the failed step, and reports
\* rollback_completed only when no rollback attempt raised.
C12_RollbackReportedFaithfully ==
    (saga_pc = "done" /\ failed_step # 0) =>
        /\ saga_result.success = FALSE
        /\ saga_result.failed_step = operation.steps[failed_step].name
        /\ saga_result.rollback_completed => rollback_errors = {}

\* the operation ids the three entry points hand out
OperationIds == {"create_agent", "update_agent", "delete_agent"}

AllCompensationsAttempted ==
    \A k \in 1..Len(completed_steps) :
        HasRollback(completed_steps[k]) => RollbackAttempts(completed_steps[k]) = 1

Successors(nodes, a) ==
    IF a \in Range(nodes.keys) THEN Range(nodes.dependencies[a]) ELSE {}

RECURSIVE ReachableFrom(_, _, _)
\* the agents reachable from frontier along dependency edges
ReachableFrom(nodes, frontier, seen) ==
    IF frontier \subseteq seen THEN seen
    ELSE ReachableFrom(nodes,
                       UNION {Successors(nodes, a) : a \in frontier \ seen},
                       seen \cup frontier)

\* a is on a dependency cycle (a self-dependency included)
OnCycle(nodes, a) == a \in ReachableFrom(nodes, Successors(nodes, a), {})

Cyclic(nodes) == \E a \in Range(nodes.keys) : OnCycle(nodes, a)

DetectCalls == {"validate_dependencies", "validate_circular_dependencies"}

\* C4: detect_circular_dependencies returns an empty list exactly when the
\* graph has no cycle (a self-dependency is a cycle), in every visiting order,
\* and for a graph with a -> b -> a it reports a cycle containing a and b.
C4_DetectIffCyclic ==
    dm_call.op \in DetectCalls =>
        /\ (dm_call.circular_dependencies = <<>>) <=> ~Cyclic(dm_call.nodes)
        /\ \A a, b \in Range(dm_call.nodes.keys) :
              (a # b /\ b \in Successors(dm_call.nodes, a)
                     /\ a \in Successors(dm_call.nodes, b)) =>
                 \E k \in 1..Len(dm_call.circular_dependencies) :
                    {a, b} \subseteq Range(dm_call.circular_dependencies[k])

\* a graph visited from S, where S depends on A and A and M depend on each other
C4_Witness ==
    /\ dm_call.op = "validate_dependencies"
    /\ dm_call.nodes.keys = <<"coordinator", "S", "A", "M">>
    /\ dm_call.nodes.dependencies["S"] = <<"A">>
    /\ dm_call.nodes.dependencies["A"] = <<"M">>
    /\ dm_call.nodes.dependencies["M"] = <<"A">>
    /\ dm_call.circular_dependencies = << <<"A", "M", "A">> >>

IsPlan(p) == "raised" \notin DOMAIN p

\* C5: in every DeletionPlan that analyze_deletion_impact produces, an agent
\* of the deletion sequence comes strictly before every agent of the sequence
\* that it depends on.
C5_DependentsFirst ==
    (dm_call.op = "analyze_deletion_impact" /\ IsPlan(dm_call.plan)) =>
        LET order == dm_call.plan.deletion_order IN
        \A i, j \in 1..Len(order) :
            order[j] \in Range(agents[order[i]].dependencies) => i < j

\* deleting M when A depends on M and S depends on both
C5_Witness ==
    /\ dm_call.op = "analyze_deletion_impact"
    /\ dm_call.agent_name = "M"
    /\ IsPlan(dm_call.plan)
    /\ agents["S"].dependencies = <<"M", "A">>
    /\ dm_call.plan.deletion_order = <<"S", "A", "M">>

\* the agents of the graph that depend on agent_name
DependingOn(agent_name) ==
    {a \in AgentNames : /\ agents[a].status \in EligibleStatuses
                        /\ agent_name \in Range(agents[a].dependencies)}

\* C6: for an agent of the graph, analyze_deletion_impact returns
\* can_delete_safely = true exactly when no agent of the graph depends on it;
\* then the deletion order is the agent alone; when it returns false,
\* dependent_agents holds the agents that depend on it.
C6_SafeIffNoDependents ==
    (/\ dm_call.op = "analyze_deletion_impact"
     /\ agents[dm_call.agent_name].status \in EligibleStatuses) =>
        /\ (IsPlan(dm_call.plan) /\ dm_call.plan.can_delete_safely)
              <=> DependingOn(dm_call.agent_name) = {}
        /\ (IsPlan(dm_call.plan) /\ dm_call.plan.can_delete_safely) =>
              dm_call.plan.deletion_order = <<dm_call.agent_name>>
        /\ (IsPlan(dm_call.plan) /\ ~dm_call.plan.can_delete_safely) =>
              Range(dm_call.plan.dependent_agents) = DependingOn(dm_call.agent_name)

\* deleting M while A and S depend on it
C6_Witness ==
    /\ dm_call.op = "analyze_deletion_impact"
    /\ dm_call.agent_name = "M"
    /\ IsPlan(dm_call.plan)
    /\ ~dm_call.plan.can_delete_safely
    /\ Range(dm_call.plan.dependent_agents) = {"A", "S"}

\* the update call was made for an agent of the graph, and the graph with that
\* agent's dependency list replaced has a cycle
UpdateWouldBeCyclic ==
    /\ dm_call.op = "update_agent_dependencies"
    /\ dm_call.agent_name \in Range(DependencyGraph(dm_call.agents_before, agent_rows).keys)
    /\ Cyclic(TestNodes(DependencyGraph(dm_call.agents_before, agent_rows),
                        dm_call.agent_name, dm_call.new_dependencies))

CarriesCycles(result) ==
    /\ "circular_dependencies" \in DOMAIN result
    /\ result.circular_dependencies # <<>>

\* C7 (as stated): whenever the replacement yields a cyclic graph the call
\* returns a failure carrying the detected cycles and no stored dependency
\* list has changed.
C7_Original ==
    UpdateWouldBeCyclic =>
        /\ ~dm_call.result.success
        /\ CarriesCycles(dm_call.result)
        /\ agents = dm_call.agents_before

\* C7 (amended): whenever the replacement yields a cyclic graph the call
\* returns a failure and no stored dependency list has changed; the failure
\* carries the detected cycles, except for the coordinator given a non-empty
\* list, which is refused before any graph is built.
C7_CyclicUpdateRejected ==
    UpdateWouldBeCyclic =>
        /\ ~dm_call.result.success
        /\ agents = dm_call.agents_before
        /\ IF IsCoordinator(dm_call.agent_name) /\ dm_call.new_dependencies # <<>>
           THEN ~CarriesCycles(dm_call.result)
           ELSE CarriesCycles(dm_call.result)

\* A depends on S, and S is to depend on A
C7_Witness ==
    /\ UpdateWouldBeCyclic
    /\ dm_call.agent_name = "S"
    /\ "A" \in Range(dm_call.new_dependencies)
    /\ "S" \in Range(dm_call.agents_before["A"].dependencies)
    /\ ~dm_call.result.success
    /\ CarriesCycles(dm_call.result)
    /\ agents = dm_call.agents_before

(***************************************************************************)
(* Claims about the scheduler.                                             *)
(***************************************************************************)
\* the scenario graph: M without dependencies, A on M, S on M and A
ScenarioConfigs ==
    [a \in AgentNames |->
        CASE a = "A" -> {"M"}
          [] a = "S" -> {"M", "A"}
          [] OTHER -> {}]

\* C3: every task the aggregator created for an agent in iteration n was
\* created when each declared dependency of the agent already had an output
\* recorded for an iteration <= n; so in the scenario graph A is dispatched
\* only after M has produced output, and S only after M and A have.
C3_DispatchedOnlyWhenReady ==
    \A d \in dispatch_log :
        /\ d.iteration <= current_iteration
        /\ agent_configs[d.agent] \subseteq d.dependencies_with_output

\* the scenario graph with S dispatched after M and A stored their outputs
C3_Witness ==
    /\ agent_configs = ScenarioConfigs
    /\ \E d \in dispatch_log :
          /\ d.agent = "S"
          /\ d.dependencies_with_output = {"M", "A"}
    /\ \E d \in dispatch_log : d.agent = "A" /\ d.dependencies_with_output = {"M"}

(***************************************************************************)
(* Claims about check_stability.                                           *)
(***************************************************************************)
\* C8: a call of check_stability made while current_iteration is below
\* stability_threshold returns false, whatever the tracked agents' last
\* update iterations are, and also when no agent is tracked.
C8_NotStableBeforeThreshold ==
    stability_call # NoStabilityCall =>
        (stability_call.current_iteration < stability_call.stability_threshold
            => stability_call.result = FALSE)

\* a call below the threshold over agents none of which updated within it
C8_Witness ==
    /\ stability_call # NoStabilityCall
    /\ stability_call.current_iteration < stability_call.stability_threshold
    /\ DOMAIN stability_call.last_update_iteration # {}
    /\ \A a \in DOMAIN stability_call.last_update_iteration :
          stability_call.current_iteration - stability_call.last_update_iteration[a]
              >= stability_call.stability_threshold
    /\ stability_call.result = FALSE

\* C9 as stated: the run is judged stable only if the current iteration is at
\* least the threshold and every tracked agent's last update lies more than
\* stability_threshold iterations back.
C9_Original ==
    (stability_call # NoStabilityCall /\ stability_call.result = TRUE) =>
        /\ stability_call.current_iteration >= stability_call.stability_threshold
        /\ \A a \in DOMAIN stability_call.last_update_iteration :
              stability_call.current_iteration - stability_call.last_update_iteration[a]
                  > stability_call.stability_threshold

\* C9 amended: the run is judged stable only if the current iteration is at
\* least the threshold and every tracked agent's last update lies at least
\* stability_threshold iterations back.
C9_StableOnlyIfQuiet ==
    (stability_call # NoStabilityCall /\ stability_call.result = TRUE) =>
        /\ stability_call.current_iteration >= stability_call.stability_threshold
        /\ \A a \in DOMAIN stability_call.last_update_iteration :
              stability_call.current_iteration - stability_call.last_update_iteration[a]
                  >= stability_call.stability_threshold

\* a stable verdict with an agent that updated exactly stability_threshold
\* iterations ago
C9_Witness ==
    /\ stability_call # NoStabilityCall
    /\ stability_call.result = TRUE
    /\ \E a \in DOMAIN stability_call.last_update_iteration :
          /\ stability_call.last_update_iteration[a] >= 0
          /\ stability_call.current_iteration - stability_call.last_update_iteration[a]
                = stability_call.stability_threshold

(***************************************************************************)
(* Claims about the API handlers.                                          *)
(***************************************************************************)
\* C10: no step of a lifecycle operation, forward or rollback, is executed
\* in a state in which an agent row has status RUNNING.
C10_NoStepWhileRunning ==
    [][(executed_log' # executed_log \/ rollback_index' # rollback_index)
          => ~check_any_agents_running]_vars

TerminalStatuses == {"completed", "failed", "stopped"}

\* the moves of the status the state machine allows
StatusMoves ==
    {<<None, "pending">>, <<"pending", "running">>} \cup
    {<<from, to>> : from \in {"pending", "running"}, to \in TerminalStatuses}

\* C13: the recorded status of a workflow execution only moves forward through
\* Pending -> Running -> {Completed | Failed | Stopped}, and once it is
\* Completed, Failed or Stopped it never changes again
C13_StatusOnlyMovesForward ==
    [][workflow_status' # workflow_status =>
          /\ workflow_status \notin TerminalStatuses
          /\ <<workflow_status, workflow_status'>> \in StatusMoves]_vars

\* C14: once a stop request has been accepted, the control loop starts no new
\* iteration: it does not enter the coordinator node again and does not
\* advance the iteration counter
C14_NoNewIterationAfterStop ==
    [][workflow_status = "stopped" =>
          /\ current_iteration' = current_iteration
          /\ (wf_pc' = "coordinator" => wf_pc = "coordinator")]_vars

OnlyErrorsCanEndRun ==
    /\ wf_pc = "coordinator" /\ coordinator_agent = None
    /\ current_iteration > 0
    /\ ~project_complete
    /\ current_iteration < max_iterations
    /\ ~check_stability

\* strictly more than half of the tracked agents are in an error state
MoreThanHalfInError ==
    2 * Cardinality(ErrorAgents) > Cardinality(DOMAIN agent_execution_status)

\* C16: at a coordinator step of an iteration > 0 at which no other
\* termination condition holds, the run is ended exactly when strictly more
\* than half of the tracked agents are in error
C16_EndedIffMoreThanHalfInError ==
    [][(OnlyErrorsCanEndRun /\ wf_pc' = "aggregator") =>
          (project_complete' <=> MoreThanHalfInError)]_vars

\* a run ended by the error threshold alone
C16_Witness ==
    /\ wf_pc = "aggregator" /\ coordinator_agent = None
    /\ project_complete
    /\ current_iteration > 0 /\ current_iteration < max_iterations
    /\ ~check_stability
    /\ MoreThanHalfInError
    /\ \E a \in DOMAIN agent_execution_status : agent_execution_status[a] # "error"

\* the agents whose execution status becomes an error in this step
NewlyFailed ==
    {a \in DOMAIN agent_execution_status :
        agent_execution_status[a] # "error" /\ agent_execution_status'[a] = "error"}

\* C17: when an agent fails, only its own execution status records it: the
\* task, the status and the outputs of every other agent are untouched, and
\* the aggregator stays at the same await of the same iteration
C17_FailureIsolatedPerAgent ==
    [][\A a \in NewlyFailed :
          /\ \A b \in DOMAIN agent_execution_status \ {a} :
                /\ agent_execution_status'[b] = agent_execution_status[b]
                /\ agent_outputs'[b] = agent_outputs[b]
                /\ b \in DOMAIN tasks => (b \in DOMAIN tasks' /\ tasks'[b] = tasks[b])
          /\ wf_pc' = wf_pc
          /\ current_iteration' = current_iteration
          /\ executed_agents' = executed_agents]_vars

\* an agent has failed while another agent dispatched in the same attempt is
\* still being awaited
C17_Witness ==
    /\ wf_pc = "awaiting"
    /\ \E a \in DOMAIN tasks, b \in DOMAIN tasks :
          /\ a # b
          /\ tasks[a] = "returned" /\ agent_execution_status[a] = "error"
          /\ tasks[b] = "invoking"

\* an agent dispatched in the current round has not returned yet
SomeAgentStillRunning == \E a \in DOMAIN tasks : tasks[a] # "returned"

\* C18: while an agent dispatched in the current round is still running the
\* aggregator stays at its await and the iteration counter is not advanced
C18_NoAdvanceWhileAgentRuns ==
    [][SomeAgentStillRunning =>
          /\ current_iteration' = current_iteration
          /\ wf_pc' = "awaiting"]_vars

\* the counter has advanced past a round in which a dispatched worker ran and
\* stored its output
C18_Witness ==
    /\ wf_pc = "coordinator"
    /\ \E entry \in dispatch_log :
          /\ entry.agent # "coordinator"
          /\ entry.iteration < current_iteration
          /\ entry.iteration \in DOMAIN agent_outputs[entry.agent]

(***************************************************************************)
(* Claims about DynamicGlobalState.                                        *)
(***************************************************************************)
\* the entries of dict after are those of dict before without the key
PoppedOnly(before, after, key) ==
    /\ DOMAIN after = DOMAIN before \ {key}
    /\ \A k \in DOMAIN after : after[k] = before[k]

\* C19: after remove_agent(a) the agent is in none of active_agents,
\* agent_outputs, last_update_iteration and agent_execution_status and is a
\* participant of no remaining conversation, and the entries of every other
\* agent and every conversation a is no participant of are unchanged
C19_RemoveAgentFrame ==
    [][state_call'.op = "remove_agent" =>
          LET a == state_call'.agent_name IN
          /\ PoppedOnly(agent_configs, agent_configs', a)
          /\ PoppedOnly(agent_outputs, agent_outputs', a)
          /\ PoppedOnly(last_update_iteration, last_update_iteration', a)
          /\ PoppedOnly(agent_execution_status, agent_execution_status', a)
          /\ \A k \in DOMAIN conversations' :
                a \notin Range(conversations'[k].participants)
          /\ \A k \in DOMAIN conversations :
                a \notin Range(conversations[k].participants) =>
                    (k \in DOMAIN conversations' /\ conversations'[k] = conversations[k])
          /\ DOMAIN conversations' \subseteq DOMAIN conversations]_vars

\* remove_agent has removed an agent that took part in the last message sent,
\* as its receiver, and left another conversation in place
C19_Witness ==
    /\ state_call.op = "remove_agent"
    /\ sent_log # <<>>
    /\ sent_log[Len(sent_log)].to_agent = state_call.agent_name
    /\ sent_log[Len(sent_log)].from_agent # state_call.agent_name
    /\ conversation_key(sent_log[Len(sent_log)].from_agent,
                        sent_log[Len(sent_log)].to_agent) \notin DOMAIN conversations
    /\ conversations # EmptyDict
    /\ state_call.agent_name \notin DOMAIN agent_configs

\* the messages sent between x and y in either direction, in send order
SentBetween(x, y) ==
    SelectSeq(sent_log, LAMBDA m : {m.from_agent, m.to_agent} = {x, y})

\* C20: after any sequence of send_message calls get_conversation(x, y) is
\* get_conversation(y, x) and holds exactly the messages sent between x and y,
\* in send order
C20_ConversationHoldsThePairsMessages ==
    \A x \in MessageAgents, y \in MessageAgents :
        /\ get_conversation(x, y) = get_conversation(y, x)
        /\ get_conversation(x, y).messages = SentBetween(x, y)

\* C29: analyze_deletion_impact returns a DeletionPlan for every dependency
\* graph and every agent name: it never raises and never recurses without
\* bound, also when the agents that depend on the target form a cycle.
C29_AnalyzeReturnsPlan ==
    dm_call.op = "analyze_deletion_impact" => IsPlan(dm_call.plan)

(***************************************************************************)
(* Claims about the lifecycle operations and the store.                    *)
(***************************************************************************)
\* the dependency graph of table t
StoredGraph(t) == DependencyGraph(t, CreationOrder(t))

\* the request is an update whose dependency list closes a cycle in the
\* graph of the table it arrived at
UpdateClosesCycle ==
    /\ agent_data.type = "update_agent"
    /\ agent_data.dependencies_set
    /\ ~Cyclic(StoredGraph(original_data.agents))
    /\ Cyclic(StoredGraph([original_data.agents EXCEPT
                              ![agent_data.agent_name].dependencies =
                                  agent_data.dependencies]))

\* every agent's stored dependency list is the one the operation found
DependencyListsUnchanged ==
    \A a \in AgentNames :
        agents[a].dependencies = original_data.agents[a].dependencies

\* C21: update_agent_atomically with a dependency list that would create a
\* dependency cycle fails (success = false) and leaves every agent's stored
\* dependency list unchanged.
C21_CyclicUpdateFails ==
    (saga_pc = "done" /\ UpdateClosesCycle) =>
        /\ ~saga_result.success
        /\ DependencyListsUnchanged

\* the table the create request asks for: the table it arrived at with the
\* row of the new agent
TableWithNewAgent ==
    [original_data.agents EXCEPT
        ![agent_data.agent_name] =
            [status |-> "inactive", dependencies |-> agent_data.dependencies]]

\* the request is a create whose row closes a cycle through the new agent
CreateClosesCycle ==
    /\ agent_data.type = "create_agent"
    /\ OnCycle(StoredGraph(TableWithNewAgent), agent_data.agent_name)

\* the table, the columns and the files are the ones the operation found
StoreUnchanged ==
    /\ agents = original_data.agents
    /\ agent_fields = original_data.agent_fields
    /\ artifacts = original_data.artifacts

\* C22: a create whose insertion would close a dependency cycle (a
\* self-dependency, or a cycle through an existing agent whose stored list
\* already names the new agent) fails at the validation step and creates
\* nothing; after a successful create the graph built from the store has no
\* cycle through the new agent.
C22_CreateNeverClosesCycle ==
    /\ (saga_pc = "done" /\ CreateClosesCycle) =>
          /\ ~saga_result.success
          /\ saga_result.failed_step = "validate_dependencies"
          /\ StoreUnchanged
    /\ (saga_pc = "done" /\ agent_data.type = "create_agent" /\ saga_result.success) =>
          ~OnCycle(StoredGraph(agents), agent_data.agent_name)

\* the agents of the table the operation found that depend on agent_name
DependentsAtRequest(agent_name) ==
    {a \in AgentNames :
        /\ original_data.agents[a].status \in EligibleStatuses
        /\ agent_name \in Range(original_data.agents[a].dependencies)}

\* the request is a delete without force_cascade of an agent of the graph
\* that other agents depend on
UnforcedDeleteWithDependents ==
    /\ agent_data.type = "delete_agent"
    /\ ~agent_data.force_cascade
    /\ original_data.agents[agent_data.agent_name].status \in EligibleStatuses
    /\ DependentsAtRequest(agent_data.agent_name) # {}

\* C23: delete_agent_atomically with force_cascade = false on an agent that
\* other agents depend on reports failure, removes neither the agent's record
\* nor its artifacts, and changes no other agent.
C23_UnforcedDeleteRefused ==
    (saga_pc = "done" /\ UnforcedDeleteWithDependents) =>
        /\ ~saga_result.success
        /\ StoreUnchanged

\* the request is an update and the step that failed comes after the
\* update_database_record step
UpdateFailedAfterRecordStep ==
    /\ agent_data.type = "update_agent"
    /\ failed_step # 0
    /\ operation.steps[failed_step].name \in {"update_prompts", "rebuild_workflow"}

\* C24: in an update, if a step after the record-update step fails, then
\* after the rollback the fields of the agent's record (display_name, role,
\* llm_name, temperature, max_tokens, dependencies) hold the values they had
\* before the operation.
C24_RecordRestoredAfterLateFailure ==
    (saga_pc = "done" /\ UpdateFailedAfterRecordStep) =>
        /\ agent_fields[agent_data.agent_name] =
              original_data.agent_fields[agent_data.agent_name]
        /\ agents[agent_data.agent_name].dependencies =
              original_data.agents[agent_data.agent_name].dependencies

\* C25: if a create fails at any step, then after the rollback the agent has
\* no record and no artifacts: the agent store and the artifact set are the
\* same as before the operation.
C25_FailedCreateLeavesNothing ==
    (saga_pc = "done" /\ agent_data.type = "create_agent" /\ failed_step # 0) =>
        /\ agents[agent_data.agent_name].status = "absent"
        /\ artifacts[agent_data.agent_name] = {}
        /\ StoreUnchanged

\* the operation was a forced cascade delete of an agent of the graph that
\* other agents depended on, and it reported success, as did the deletion of
\* the rows and the deletion of the files
ForcedCascadeSucceeded ==
    /\ saga_pc = "done"
    /\ agent_data.type = "delete_agent"
    /\ agent_data.force_cascade
    /\ original_data.agents[agent_data.agent_name].status \in EligibleStatuses
    /\ DependentsAtRequest(agent_data.agent_name) # {}
    /\ saga_result.success
    /\ step_results[2].success
    /\ step_results[3].deleted

\* C28: after a successful forced cascade delete of an agent with
\* dependents, every agent of the plan's deletion sequence has been removed:
\* none of them retains a record or artifacts.
C28_CascadeRemovesWholePlan ==
    ForcedCascadeSucceeded =>
        \A a \in Range(step_results[1].deletion_order) :
            /\ agents[a].status = "absent"
            /\ artifacts[a] = {}

(***************************************************************************)
(* Claims about start_workflow.                                            *)
(***************************************************************************)
\* C26: when start_workflow is rejected (for instance because agents are
\* already RUNNING), every agent's status is unchanged: the agents of the
\* running workflow stay RUNNING.
C26_RejectedStartKeepsStatuses ==
    [][(start_pc = "failing" /\ start_pc' = "failed") =>
          \A a \in AgentNames : agents'[a].status = agents[a].status]_vars

(***************************************************************************)
(* Claims about the end of a run.                                          *)
(***************************************************************************)
\* C27: once project_complete is set, no further agent is dispatched in
\* that run.
C27_NoDispatchAfterComplete ==
    [][project_complete => dispatch_log' = dispatch_log]_vars

(***************************************************************************)
(* Further claims about the dependency graph manager.                      *)
(***************************************************************************)
\* C38: every cycle reported by detect_circular_dependencies is a real cycle
\* of the graph: its first and last elements are the same agent and every
\* element depends directly on the element that follows it.
C38_ReportedCyclesAreReal ==
    dm_call.op \in DetectCalls =>
        \A k \in 1..Len(dm_call.circular_dependencies) :
            LET cycle == dm_call.circular_dependencies[k] IN
            /\ Len(cycle) >= 2
            /\ cycle[1] = cycle[Len(cycle)]
            /\ \A i \in 1..(Len(cycle) - 1) :
                  cycle[i + 1] \in Successors(dm_call.nodes, cycle[i])

\* a walk that enters the cycle M -> A -> M from S, which is not on it
C38_Witness ==
    /\ dm_call.op = "validate_dependencies"
    /\ Len(dm_call.nodes.keys) = 4
    /\ dm_call.nodes.keys[2] = "S"
    /\ dm_call.nodes.dependencies["S"] = <<"M">>
    /\ dm_call.circular_dependencies = << <<"M", "A", "M">> >>

\* C36: when update_agent_dependencies succeeds, previous_dependencies in the
\* returned dict is the agent's dependency list as it was before the update
\* and updated_dependencies is the new list.
C36_PreviousDependenciesReturned ==
    (dm_call.op = "update_agent_dependencies" /\ dm_call.result.success) =>
        /\ dm_call.result.updated_dependencies = dm_call.new_dependencies
        /\ dm_call.result.previous_dependencies =
               dm_call.agents_before[dm_call.agent_name].dependencies

RECURSIVE LongestWalk(_, _, _)
\* the number of agents on the longest walk along dependency edges that
\* starts in frontier and has at most n agents
LongestWalk(nodes, frontier, n) ==
    IF n = 0 \/ frontier = {} THEN 0
    ELSE 1 + LongestWalk(nodes, UNION {Successors(nodes, a) : a \in frontier}, n - 1)

\* C37: _calculate_dependency_chain_length terminates on every graph, cyclic
\* ones included; on an acyclic graph it returns the number of agents on the
\* longest dependency chain starting at the agent, which is 1 for an agent
\* with no dependencies.
C37_ChainLengthTerminates ==
    dm_call.op = "validate_dependencies" =>
        \A a \in Range(dm_call.nodes.keys) :
            /\ ~dm_call.chain_length[a].overflow
            /\ ~Cyclic(dm_call.nodes) =>
                  dm_call.chain_length[a].length =
                      LongestWalk(dm_call.nodes, {a}, Cardinality(AgentNames))
            /\ dm_call.nodes.dependencies[a] = <<>> =>
                  dm_call.chain_length[a].length = 1

\* a graph with a cycle A -> M -> A met from S, and an answer for each agent
C37_Witness ==
    /\ dm_call.op = "validate_dependencies"
    /\ Len(dm_call.nodes.keys) = 4
    /\ dm_call.nodes.dependencies["S"] = <<"A">>
    /\ dm_call.nodes.dependencies["A"] = <<"M">>
    /\ dm_call.nodes.dependencies["M"] = <<"A">>
    /\ dm_call.chain_length["S"] = [overflow |-> FALSE, length |-> 3]
    /\ dm_call.chain_length["coordinator"] = [overflow |-> FALSE, length |-> 1]

\* the agents of the graph from which target is reached along dependency edges
TransitiveDependents(nodes, target) ==
    {a \in Range(nodes.keys) : target \in ReachableFrom(nodes, Successors(nodes, a), {})}

\* C33: for an agent that has dependents in an acyclic graph, the deletion
\* sequence contains exactly the target and every agent that transitively
\* depends on it, each exactly once, with the target last.
C33_CascadeOrderComplete ==
    LET nodes == DependencyGraph(agents, agent_rows)
        target == dm_call.agent_name
    IN  (/\ dm_call.op = "analyze_deletion_impact"
         /\ target \in Range(nodes.keys)
         /\ DependingOn(target) # {}
         /\ ~Cyclic(nodes)) =>
            /\ IsPlan(dm_call.plan)
            /\ LET order == dm_call.plan.deletion_order IN
               /\ Range(order) = {target} \cup TransitiveDependents(nodes, target)
               /\ Len(order) = Cardinality(Range(order))
               /\ order[Len(order)] = target

\* deleting M when A depends on M and S depends on A only
C33_Witness ==
    /\ dm_call.op = "analyze_deletion_impact"
    /\ dm_call.agent_name = "M"
    /\ agents["M"].status \in EligibleStatuses
    /\ agents["A"].status \in EligibleStatuses /\ agents["A"].dependencies = <<"M">>
    /\ agents["S"].status \in EligibleStatuses /\ agents["S"].dependencies = <<"A">>
    /\ IsPlan(dm_call.plan)
    /\ dm_call.plan.deletion_order = <<"S", "A", "M">>

(***************************************************************************)
(* Further claims about the iteration scheduler.                           *)
(***************************************************************************)
\* the task of agent a passes from created to the call of agent.ainvoke
Runs(a) ==
    /\ a \in DOMAIN tasks /\ tasks[a] = "created"
    /\ a \in DOMAIN tasks' /\ tasks'[a] = "invoking"

\* C34: within one iteration each agent is dispatched at most once, over all
\* dispatch rounds of that iteration, and an agent that has already produced
\* output for the current iteration is not run again for it.
C34_OneDispatchPerIteration ==
    [][/\ \A e1, e2 \in dispatch_log' :
             (e1.agent = e2.agent /\ e1.iteration = e2.iteration) => e1 = e2
       /\ \A a \in DOMAIN agent_configs :
             Runs(a) => current_iteration \notin DOMAIN agent_outputs[a]]_vars

\* a second dispatch round of an iteration, made while an agent of the first
\* round holds its output for that iteration
C34_Witness ==
    /\ wf_pc = "awaiting"
    /\ \E e \in dispatch_log :
          e.iteration = current_iteration /\ e.attempt = 1 /\ tasks[e.agent] = "invoking"
    /\ \E a \in executed_agents \ {"coordinator"} :
          /\ current_iteration \in DOMAIN agent_outputs[a]
          /\ a \notin DOMAIN tasks

\* the output of agent a stored by this step of its process call
StoredOutput(a) == agent_outputs'[a][current_iteration]

\* agent a's process call stores an output for current_iteration in this step
StoresOutput(a) ==
    /\ a \in DOMAIN tasks /\ tasks[a] = "invoking"
    /\ agent_outputs'[a] # agent_outputs[a]
    /\ current_iteration \in DOMAIN agent_outputs'[a]

\* the stored output has no earlier output of the agent to compare with, or
\* differs from the most recent one in a field that is not bookkeeping
DiffersFromEarlier(a) ==
    LET earlier == {k \in DOMAIN agent_outputs[a] : k < current_iteration} IN
    \/ earlier = {}
    \/ StoredOutput(a).value # agent_outputs[a][Max(earlier)].value

\* C35: an agent's last-update iteration is set to the current iteration
\* exactly when the agent stores an output for that iteration that differs,
\* ignoring the bookkeeping fields, from its own most recent earlier output
\* (or when it has no earlier output); otherwise it is left unchanged, so it
\* never exceeds current_iteration.
C35_LastUpdateTracksChanges ==
    [][\A a \in DOMAIN agent_configs :
          /\ IF StoresOutput(a) /\ DiffersFromEarlier(a)
             THEN last_update_iteration'[a] = current_iteration
             ELSE last_update_iteration'[a] = last_update_iteration[a]
          /\ last_update_iteration'[a] <= current_iteration']_vars

\* an agent has repeated its earlier output in a later iteration, and its
\* last-update iteration still names the earlier one
C35_Witness ==
    \E a \in DOMAIN agent_configs \ {"coordinator"} :
        /\ current_iteration \in DOMAIN agent_outputs[a]
        /\ last_update_iteration[a] \in DOMAIN agent_outputs[a]
        /\ last_update_iteration[a] < current_iteration
        /\ agent_outputs[a][current_iteration].value
              = agent_outputs[a][last_update_iteration[a]].value
        /\ agent_outputs[a][current_iteration].iteration = current_iteration

(***************************************************************************)
(* Claims about the life of a workflow.                                    *)
(***************************************************************************)
\* the background task is inside the control loop of the workflow graph
ControlLoopExecuting ==
    /\ background_pc = "executing"
    /\ wf_pc \in {"coordinator", "aggregator", "attempt", "awaiting", "should_continue"}

\* the rows of the agents table
PresentAgents == {a \in AgentNames : agents[a].status # "absent"}

\* C31: every workflow that start_workflow accepted eventually reaches
\* Completed, Failed or Stopped, and once its control loop has ended every
\* agent is INACTIVE again, so agent mutation is unblocked; while its control
\* loop is still executing iterations the agents stay RUNNING.
C31_AcceptedWorkflowEndsAndFreesAgents ==
    /\ (workflow_status = "pending") ~> (workflow_status \in TerminalStatuses)
    /\ [](background_pc = "done" => ~check_any_agents_running)
    /\ [](ControlLoopExecuting => \A a \in PresentAgents : agents[a].status = "running")

====
